---- MODULE Spec2Model ----
(***************************************************************************)
(* A model of the adt-workshop lessons: the generic tagged-union matcher   *)
(* matchTagged, and the Option / Result / AsyncData pipelines the lesson   *)
(* and solution files build with @swan-io/boxed.                           *)
(*                                                                         *)
(* JavaScript values are records tagged by their typeof:                   *)
(*   [t |-> "null"], [t |-> "undefined"], [t |-> "number", n |-> 3],       *)
(*   [t |-> "string", s |-> "x"], [t |-> "boolean", b |-> FALSE].          *)
(* Strings that the program reads character by character (the arguments of *)
(* Number and Number.parseInt) are sequences of one-character strings.     *)
(* Every callback a pipeline invokes is appended to a call log, so that    *)
(* "f is not invoked" and "f is invoked exactly once" are state predicates.*)
(***************************************************************************)
EXTENDS Integers, Sequences, FiniteSets, TLC

VARIABLES
  mOp,        \* matcher: the operation last executed ("none" initially)
  mValue,     \* matcher: the tagged value passed
  mHandlers,  \* matcher: the handler mapping passed (key -> handler name)
  mOut        \* matcher: outcome [kind, payload, calls] of the call

mvars == <<mOp, mValue, mHandlers, mOut>>

VARIABLES
  oOp,      \* option: the operation last executed
  oIn,      \* option: the raw value the pipeline or function started from
  oOrigin,  \* option: the Option the pipeline started with
  oPrev,    \* option: the Option the last map/flatMap was called on
  oFn,      \* option: the callback and random outcomes of the last map/flatMap
  oVal,     \* option: the current Option of the pipeline
  oLog,     \* option: the callbacks invoked since the pipeline started
  oSteps,   \* option: the number of map/flatMap calls of the pipeline
  oOut      \* option: outcome of the last priceTag / consumeOption call

ovars == <<oOp, oIn, oOrigin, oPrev, oFn, oVal, oLog, oSteps, oOut>>

VARIABLES
  rOp,      \* result: the operation last executed ("none": idle)
  rIn,      \* result: the string the function last called was given
  rOrigin,  \* result: the Result the pipeline started with
  rChain,   \* result: the map/flatMap/mapError calls of the pipeline, in order
  rPrev,    \* result: [v, log] the last pipeline call was made on
  rFn,      \* result: the callback given to the last pipeline call
  rVal,     \* result: the current Result, or the Result the function returned
  rLog      \* result: the callbacks invoked since the pipeline or function started

rvars == <<rOp, rIn, rOrigin, rChain, rPrev, rFn, rVal, rLog>>

VARIABLES
  aOp,      \* async: the operation last executed ("none": idle)
  aIn,      \* async: the argument of the function last called
  aOrigin,  \* async: the AsyncData the pipeline started with
  aChain,   \* async: the calls of the pipeline, in order
  aPrev,    \* async: [v, log] the last pipeline call was made on
  aFn,      \* async: the callback given to the last pipeline call
  aVal,     \* async: the current AsyncData, or the value the function returned
  aLog      \* async: the callbacks invoked since the pipeline or function started

avars == <<aOp, aIn, aOrigin, aChain, aPrev, aFn, aVal, aLog>>

VARIABLES
  hOp,      \* heap: the operation last executed ("none": idle)
  hHeap,    \* heap: the objects that exist, by reference
  hBefore,  \* heap: the objects that existed when the last call was made
  hRecv,    \* heap: the AsyncData the calls are made on
  hOut      \* heap: what the last call returned

hvars == <<hOp, hHeap, hBefore, hRecv, hOut>>

VARIABLES
  gOp,      \* getMessage: the function last called ("none" initially)
  gWeek,    \* getMessage: the list of days it was given
  gOut      \* getMessage: what it returned

gvars == <<gOp, gWeek, gOut>>

VARIABLES
  ePc,          \* exceptions: where the running function is ("idle": none runs)
  eArg,         \* exceptions: the flag the running function was given
  eCompletion,  \* exceptions: the pending completion [type, value] of the running function
  eTrace,       \* exceptions: the events of the last call, in order
  eConsole,     \* exceptions: the lines printed so far
  eOut,         \* exceptions: what the caller of the last call received
  eCalls        \* exceptions: the number of calls made

evars == <<ePc, eArg, eCompletion, eTrace, eConsole, eOut, eCalls>>

VARIABLES
  vCalled,      \* render: TRUE once render was called
  vIn,          \* render: the AsyncData of the last call
  vOut,         \* render: the text the last call returned
  vLog,         \* render: the handlers the last call ran, in order
  kMounted,     \* UserCard: TRUE once mounted
  kId,          \* UserCard: the id prop
  kEffectDue,   \* UserCard: the effect has yet to run for the current id
  kState,       \* UserCard: the state
  kShown,       \* UserCard: the state of the last render
  kOut,         \* UserCard: the text of the last render
  lMounted,     \* UserCardLegacy: TRUE once mounted
  lId,          \* UserCardLegacy: the id prop
  lEffectDue,   \* UserCardLegacy: the effect has yet to run for the current id
  lData,        \* UserCardLegacy: the state data
  lError,       \* UserCardLegacy: the state error
  lIsLoading,   \* UserCardLegacy: the state isLoading
  lPending,     \* UserCardLegacy: the ids of the fetches not yet settled, oldest first
  lStarted,     \* UserCardLegacy: the number of fetches started
  lOut          \* UserCardLegacy: the text of the last render

uvars == <<vCalled, vIn, vOut, vLog, kMounted, kId, kEffectDue, kState, kShown, kOut,
           lMounted, lId, lEffectDue, lData, lError, lIsLoading, lPending, lStarted, lOut>>

vars == <<mvars, ovars, rvars, avars, hvars, gvars, evars, uvars>>

(***************************************************************************)
(* 1. matchTagged                                                          *)
(***************************************************************************)

\* The tags of the AppError family (NetworkError | ValidationError).
AppErrorTags == {"NetworkError", "ValidationError"}

\* Property names every object literal inherits from Object.prototype and
\* whose value is a function: handlers[key] finds them although the literal
\* has no such own key.
ObjectPrototypeFns == {"toString", "toLocaleString"}

\* Tags a value can carry at run time: the family, a tag outside the family
\* (unsafe construction) and tags that collide with inherited properties.
RuntimeTags == AppErrorTags \cup {"Timeout"} \cup ObjectPrototypeFns

Msgs == {"down", "empty"}

Fields == {"email"}

\* new NetworkError(msg)
NetworkError(msg) == [_tag |-> "NetworkError", msg |-> msg]

\* new ValidationError(field, msg)
ValidationError(field, msg) == [_tag |-> "ValidationError", field |-> field, msg |-> msg]

TaggedValues ==
  {NetworkError(m) : m \in Msgs}
    \cup {ValidationError(f, m) : f \in Fields, m \in Msgs}
    \cup {[_tag |-> t, msg |-> m] : t \in RuntimeTags \ AppErrorTags, m \in Msgs}

\* o.name interpolated into a template literal: a missing property prints
\* as "undefined".
Prop(o, name) == IF name \in DOMAIN o THEN o[name] ELSE "undefined"

HandlerFns == {"onNetworkError", "onValidationError"}

\* The two arrow functions handleError passes as handlers.
ApplyHandler(fn, v) ==
  IF fn = "onNetworkError"
  THEN "Could not reach server: " \o Prop(v, "msg")
  ELSE "Field " \o Prop(v, "field") \o " is invalid: " \o Prop(v, "msg")

HandlerKeys == AppErrorTags \cup {"Timeout"}

\* Every object literal with keys among HandlerKeys: complete mappings,
\* mappings that lack a tag of the family, mappings with an extra key.
HandlerMappings == UNION {[K -> HandlerFns] : K \in SUBSET HandlerKeys}

Returned(payload, calls) == [kind |-> "return", payload |-> payload, calls |-> calls]

Thrown(name, message, calls) ==
  [kind |-> "throw", payload |-> [name |-> name, message |-> message], calls |-> calls]

MutMatchTaggedFirstHandler(value, handlers) ==
  IF DOMAIN handlers = {}
  THEN Thrown("TypeError", "handlers[key] is not a function", <<>>)
  ELSE LET k == CHOOSE k \in DOMAIN handlers : TRUE
       IN  Returned(ApplyHandler(handlers[k], value),
                    <<[fn |-> handlers[k], arg |-> value]>>)

MutMatchTaggedValidating(value, handlers) ==
  IF DOMAIN handlers # AppErrorTags
  THEN Thrown("NonExhaustiveMatch", "handlers do not cover the family", <<>>)
  ELSE Returned(ApplyHandler(handlers[value._tag], value),
                <<[fn |-> handlers[value._tag], arg |-> value]>>)

\* key = value._tag; return handlers[key](value).  handlers[key] is the own
\* property when there is one, else the inherited Object.prototype function
\* (called with this = handlers: toString answers "[object Object]"), else
\* undefined, and calling undefined throws a TypeError.
matchTagged(value, handlers) ==
  LET key == value._tag
  IN  IF key \in DOMAIN handlers
      THEN Returned(ApplyHandler(handlers[key], value),
                    <<[fn |-> handlers[key], arg |-> value]>>)
      ELSE IF key \in ObjectPrototypeFns
      THEN Returned("[object Object]", <<>>)
      ELSE Thrown("TypeError", "handlers[key] is not a function", <<>>)

\* The handler mapping handleError writes out.
HandleErrorHandlers ==
  [NetworkError |-> "onNetworkError", ValidationError |-> "onValidationError"]

handleError(err) == matchTagged(err, HandleErrorHandlers)

MatchInit ==
  /\ mOp = "none"
  /\ mValue = NetworkError("down")
  /\ mHandlers = HandleErrorHandlers
  /\ mOut = Returned("", <<>>)

CallMatchTagged ==
  \E v \in TaggedValues, h \in HandlerMappings :
    /\ mOp' = "matchTagged"
    /\ mValue' = v
    /\ mHandlers' = h
    /\ mOut' = matchTagged(v, h)
    /\ UNCHANGED <<ovars, rvars, avars, hvars, gvars, evars, uvars>>

CallHandleError ==
  \E err \in TaggedValues :
    /\ mOp' = "handleError"
    /\ mValue' = err
    /\ mHandlers' = HandleErrorHandlers
    /\ mOut' = handleError(err)
    /\ UNCHANGED <<ovars, rvars, avars, hvars, gvars, evars, uvars>>

(***************************************************************************)
(* 2. JavaScript values, Option                                            *)
(***************************************************************************)

\* Longest map/flatMap chain the pipeline actions build.
MaxOptSteps == 2

JsNull == [t |-> "null"]

JsUndefined == [t |-> "undefined"]

Num(n) == [t |-> "number", n |-> n]

Str(s) == [t |-> "string", s |-> s]

Bool(b) == [t |-> "boolean", b |-> b]

\* The numbers the functions are run on: a negative one, the falsy 0, small
\* ones, and one above consumeOption's threshold of 1000.
Numbers == {-1, 0, 5, 1001}

NullableNumbers == {JsNull, JsUndefined} \cup {Num(n) : n \in Numbers}

\* Arguments of Option.fromNullable: nullable numbers and other falsy and
\* truthy values.
JsVals == NullableNumbers \cup {Str(""), Str("a"), Bool(FALSE), Bool(TRUE)}

\* Option.None(): boxed tags its values in the field `tag`.
None == [tag |-> "None"]

\* Option.Some(value)
Some(value) == [tag |-> "Some", value |-> value]

\* x == null
IsNullish(x) == x.t \in {"null", "undefined"}

\* Option.fromNullable(x)
fromNullable(x) == IF IsNullish(x) THEN None ELSE Some(x)

DigitChars == <<"0", "1", "2", "3", "4", "5", "6", "7", "8", "9">>

RECURSIVE NatToString(_)
\* The decimal digits of a natural number.
NatToString(n) ==
  IF n < 10 THEN DigitChars[n + 1]
  ELSE NatToString(n \div 10) \o DigitChars[(n % 10) + 1]

RECURSIVE Zeros(_)
Zeros(k) == IF k = 0 THEN "" ELSE "0" \o Zeros(k - 1)

\* n.toFixed(digits) for an integer n.
toFixed(n, digits) ==
  (IF n < 0 THEN "-" ELSE "") \o NatToString(IF n < 0 THEN -n ELSE n)
    \o (IF digits = 0 THEN "" ELSE "." \o Zeros(digits))

\* maybeWipe(n): keep is the outcome of Math.random() > 0.5.
maybeWipe(n, keep) == IF keep THEN n ELSE JsNull

\* fetchFallback(): coin is the outcome of Math.random() > 0.5 and amount
\* the value of Math.random() * 500.
fetchFallback(coin, amount) == IF coin THEN Num(amount) ELSE JsUndefined

FallbackAmounts == {0, 250}

\* The outcomes of the random helpers during one call.
OptEnvs == [keep : BOOLEAN, coin : BOOLEAN, amount : FallbackAmounts]

OptMapFns == {"double", "negate"}

OptFlatMapFns == {"wipeStep", "fallbackStep"}

Call(fn, arg) == [fn |-> fn, arg |-> arg]

\* The callbacks given to map and flatMap, each with the helper calls it
\* makes: [v |-> what it returns, log |-> the helpers it invoked].
\*   double        n => n * 2
\*   negate        n => -n
\*   wipeStep      n => Option.fromNullable(maybeWipe(n))
\*   fallbackStep  n => n > 1000 ? Option.fromNullable(fetchFallback())
\*                               : Option.Some(n)
ApplyOptFn(fn, x, env) ==
  CASE fn = "double" -> [v |-> Num(x.n * 2), log |-> <<>>]
    [] fn = "negate" -> [v |-> Num(0 - x.n), log |-> <<>>]
    [] fn = "wipeStep" ->
         [v |-> fromNullable(maybeWipe(x, env.keep)),
          log |-> <<Call("maybeWipe", x)>>]
    [] fn = "fallbackStep" ->
         IF x.n > 1000
         THEN [v |-> fromNullable(fetchFallback(env.coin, env.amount)),
               log |-> <<Call("fetchFallback", JsUndefined)>>]
         ELSE [v |-> Some(x), log |-> <<>>]

\* option.map(f), on a pipeline state [v, log].
OptionMap(st, fn, env) ==
  IF st.v.tag = "None" THEN st
  ELSE LET r == ApplyOptFn(fn, st.v.value, env)
       IN  [v |-> Some(r.v), log |-> st.log \o <<Call(fn, st.v.value)>> \o r.log]

\* option.flatMap(f), on a pipeline state [v, log].
OptionFlatMap(st, fn, env) ==
  IF st.v.tag = "None" THEN st
  ELSE LET r == ApplyOptFn(fn, st.v.value, env)
       IN  [v |-> r.v, log |-> st.log \o <<Call(fn, st.v.value)>> \o r.log]

\* ts-pattern: an object pattern matches a value that has every key of the
\* pattern with the pattern's value.
MatchesPattern(v, pat) == \A k \in DOMAIN pat : k \in DOMAIN v /\ v[k] = pat[k]

MutPriceTagTruthy(raw) ==
  IF IsNullish(raw) \/ raw = Num(0) THEN "N/A" ELSE "$" \o toFixed(raw.n, 2)

\* priceTag(raw): match(Option.fromNullable(raw)) with Option.P.None and
\* Option.P.Some(P.select()).
priceTag(raw) ==
  LET opt == fromNullable(raw)
  IN  IF MatchesPattern(opt, [tag |-> "None"]) THEN "N/A"
      ELSE "$" \o toFixed(opt.value.n, 2)

MutConsumeOptionChainEager(raw, env) ==
  LET wiped == maybeWipe(raw, env.keep)
  IN  [v |-> IF IsNullish(raw) THEN None ELSE fromNullable(wiped),
       log |-> <<Call("wipeStep", raw), Call("maybeWipe", raw)>>]

\* consumeOption, up to the match: fromNullable, then the two flatMap calls.
consumeOptionChain(raw, env) ==
  OptionFlatMap(
    OptionFlatMap([v |-> fromNullable(raw), log |-> <<>>], "wipeStep", env),
    "fallbackStep", env)

\* consumeOption(raw): the chain, then match(value) with the patterns
\* { _tag: "None" } and { _tag: "Some" } and .exhaustive(), which throws
\* when no pattern matches.
consumeOption(raw, env) ==
  LET st == consumeOptionChain(raw, env)
  IN  IF MatchesPattern(st.v, [_tag |-> "None"])
      THEN Returned("No data", st.log)
      ELSE IF MatchesPattern(st.v, [_tag |-> "Some"])
      THEN Returned("$" \o toFixed(st.v.value.n, 2), st.log)
      ELSE Thrown("NonExhaustiveError", "Pattern matching error: no pattern matches value", st.log)

NoFn == [name |-> "none", env |-> [keep |-> FALSE, coin |-> FALSE, amount |-> 0]]

OptInit ==
  /\ oOp = "none"
  /\ oIn = JsUndefined
  /\ oOrigin = None
  /\ oPrev = None
  /\ oFn = NoFn
  /\ oVal = None
  /\ oLog = <<>>
  /\ oSteps = 0
  /\ oOut = Returned("", <<>>)

\* Option.fromNullable(x): starts a pipeline.
CallFromNullable ==
  \E x \in JsVals :
    /\ oOp' = "fromNullable"
    /\ oIn' = x
    /\ oOrigin' = fromNullable(x)
    /\ oPrev' = fromNullable(x)
    /\ oFn' = NoFn
    /\ oVal' = fromNullable(x)
    /\ oLog' = <<>>
    /\ oSteps' = 0
    /\ UNCHANGED oOut
    /\ UNCHANGED <<mvars, rvars, avars, hvars, gvars, evars, uvars>>

InOptPipeline == oOp \in {"fromNullable", "map", "flatMap"}

\* The callbacks take numbers: the pipeline goes on from None or Some(number).
OptCallable == IF oVal.tag = "None" THEN TRUE ELSE oVal.value.t = "number"

\* value.map(f)
CallOptionMap ==
  \E fn \in OptMapFns, env \in {NoFn.env} :
    /\ InOptPipeline /\ OptCallable /\ oSteps < MaxOptSteps
    /\ LET st == OptionMap([v |-> oVal, log |-> oLog], fn, env)
       IN  /\ oVal' = st.v
           /\ oLog' = st.log
    /\ oOp' = "map"
    /\ oPrev' = oVal
    /\ oFn' = [name |-> fn, env |-> env]
    /\ oSteps' = oSteps + 1
    /\ UNCHANGED <<oIn, oOrigin, oOut>>
    /\ UNCHANGED <<mvars, rvars, avars, hvars, gvars, evars, uvars>>

\* value.flatMap(f)
CallOptionFlatMap ==
  \E fn \in OptFlatMapFns, env \in OptEnvs :
    /\ InOptPipeline /\ OptCallable /\ oSteps < MaxOptSteps
    /\ LET st == OptionFlatMap([v |-> oVal, log |-> oLog], fn, env)
       IN  /\ oVal' = st.v
           /\ oLog' = st.log
    /\ oOp' = "flatMap"
    /\ oPrev' = oVal
    /\ oFn' = [name |-> fn, env |-> env]
    /\ oSteps' = oSteps + 1
    /\ UNCHANGED <<oIn, oOrigin, oOut>>
    /\ UNCHANGED <<mvars, rvars, avars, hvars, gvars, evars, uvars>>

CallPriceTag ==
  \E raw \in NullableNumbers :
    /\ oOp' = "priceTag"
    /\ oIn' = raw
    /\ oOut' = Returned(priceTag(raw), <<>>)
    /\ oOrigin' = None /\ oPrev' = None /\ oFn' = NoFn /\ oVal' = None
    /\ oLog' = <<>> /\ oSteps' = 0
    /\ UNCHANGED <<mvars, rvars, avars, hvars, gvars, evars, uvars>>

CallConsumeOption ==
  \E raw \in NullableNumbers, env \in OptEnvs :
    /\ oOp' = "consumeOption"
    /\ oIn' = raw
    /\ oOrigin' = fromNullable(raw)
    /\ oPrev' = fromNullable(raw)
    /\ oFn' = [name |-> "consumeOption", env |-> env]
    /\ oVal' = consumeOptionChain(raw, env).v
    /\ oLog' = consumeOptionChain(raw, env).log
    /\ oSteps' = 2
    /\ oOut' = consumeOption(raw, env)
    /\ UNCHANGED <<mvars, rvars, avars, hvars, gvars, evars, uvars>>

OptionNext ==
  \/ CallFromNullable
  \/ CallOptionMap
  \/ CallOptionFlatMap
  \/ CallPriceTag
  \/ CallConsumeOption

(***************************************************************************)
(* 3. Number parsing, Result                                               *)
(***************************************************************************)

\* Longest string given to the parsing functions.
MaxRawLen == 3

\* Longest map/flatMap/mapError chain the pipeline actions build.
MaxResSteps == 2

\* The characters of the strings parsed: decimal digits (all of them hex
\* digits too), the sign, white space, and "x", which is no digit but
\* completes the hex prefix "0x".
DecimalDigits == {"0", "1", "7", "8"}

RawChars == DecimalDigits \cup {"-", " ", "x"}

RawStrings == UNION {[1..k -> RawChars] : k \in 0..MaxRawLen}

DigitValue(c) == CASE c = "0" -> 0 [] c = "1" -> 1 [] c = "7" -> 7 [] c = "8" -> 8

RECURSIVE DigitsValue(_, _)
\* The number a non-empty digit string denotes in the given radix.
DigitsValue(s, radix) ==
  IF s = <<>> THEN 0
  ELSE DigitsValue(SubSeq(s, 1, Len(s) - 1), radix) * radix + DigitValue(s[Len(s)])

RECURSIVE TrimStart(_)
TrimStart(s) == IF s # <<>> /\ s[1] = " " THEN TrimStart(Tail(s)) ELSE s

RECURSIVE TrimEnd(_)
TrimEnd(s) ==
  IF s # <<>> /\ s[Len(s)] = " " THEN TrimEnd(SubSeq(s, 1, Len(s) - 1)) ELSE s

IsDigits(s) == s # <<>> /\ \A i \in 1..Len(s) : s[i] \in DecimalDigits

RECURSIVE DigitPrefix(_)
\* The longest prefix of s made of digits.
DigitPrefix(s) ==
  IF s # <<>> /\ s[1] \in DecimalDigits THEN <<s[1]>> \o DigitPrefix(Tail(s)) ELSE <<>>

HasHexPrefix(s) == Len(s) >= 2 /\ s[1] = "0" /\ s[2] = "x"

NaN == [t |-> "number", nan |-> TRUE]

\* Number.isNaN(x)
NumberIsNaN(x) == "nan" \in DOMAIN x

\* Number(s): white space is trimmed; the empty string is 0; a hex literal
\* 0x... takes no sign; a decimal literal takes an optional sign; anything
\* else is NaN.  (-0 is not told apart from 0.)
Number(s) ==
  LET str == TrimEnd(TrimStart(s))
  IN  IF str = <<>> THEN Num(0)
      ELSE IF HasHexPrefix(str)
      THEN IF IsDigits(SubSeq(str, 3, Len(str)))
           THEN Num(DigitsValue(SubSeq(str, 3, Len(str)), 16))
           ELSE NaN
      ELSE IF str[1] = "-"
      THEN IF IsDigits(Tail(str)) THEN Num(0 - DigitsValue(Tail(str), 10)) ELSE NaN
      ELSE IF IsDigits(str) THEN Num(DigitsValue(str, 10))
      ELSE NaN

\* Number.parseInt(s): leading white space is skipped, then an optional
\* sign, then an optional 0x that selects radix 16, then the longest run of
\* digits; what follows the digits is ignored; no digit at all is NaN.
parseInt(s) ==
  LET str == TrimStart(s)
      neg == str # <<>> /\ str[1] = "-"
      body == IF neg THEN Tail(str) ELSE str
      hex == HasHexPrefix(body)
      digits == DigitPrefix(IF hex THEN SubSeq(body, 3, Len(body)) ELSE body)
      mag == DigitsValue(digits, IF hex THEN 16 ELSE 10)
  IN  IF digits = <<>> THEN NaN
      ELSE Num(IF neg THEN 0 - mag ELSE mag)

\* Result.Ok(value)
Ok(value) == [tag |-> "Ok", value |-> value]

\* Result.Error(error)
Error(error) == [tag |-> "Error", error |-> error]

\* An error object; ref is its identity: two objects that look the same
\* differ in ref.
ErrorObject(tag, ref) == [t |-> "object", _tag |-> tag, ref |-> ref]

ErrorValues == {Str("boom"), ErrorObject("NetworkError", 1), ErrorObject("NetworkError", 2)}

OkNumbers == {-3, 0, 7, 8}

\* `${e}`
ToStr(x) ==
  CASE x.t = "string" -> x.s
    [] x.t = "number" -> IF NumberIsNaN(x) THEN "NaN" ELSE toFixed(x.n, 0)
    [] x.t = "object" -> "[object Object]"
    [] OTHER -> x.t

\* function that returns a result
half(n) == IF n.n % 2 = 0 THEN Ok(Num(n.n \div 2)) ELSE Error(Str("not even"))

\* 3.3 chain another fallible step
positive(n) == IF n.n > 0 THEN Ok(n) ELSE Error(Str("negative"))

double(n) == Num(n.n * 2)


\* ensurePositive(n) of the 09 solution
ensurePositive(n) == IF n.n > 0 THEN Ok(n) ELSE Error(Str("negative number.."))

MutUnder100Inclusive(n) ==
  IF n.n <= 100 THEN Ok(n)
  ELSE Error(Str("Number is greater than 100. Number: " \o ToStr(n) \o "."))

\* under100(n) of the 09 solution
under100(n) ==
  IF n.n < 100 THEN Ok(n)
  ELSE Error(Str("Number is greater than 100. Number: " \o ToStr(n) \o "."))


MutEnsureNot0Never(n) == Ok(n)

\* ensureNot0(n)
ensureNot0(n) == IF n.n = 0 THEN Error(Str("Number cannot be 0.")) ELSE Ok(n)

\* ensurePositive(n) of lesson 09
ensurePositiveLesson(n) == IF n.n > 0 THEN Ok(n) ELSE Error(Str("negative"))

Abs(n) == IF n < 0 THEN 0 - n ELSE n

RECURSIVE Gcd(_, _)
Gcd(a, b) == IF b = 0 THEN a ELSE Gcd(b, a % b)

\* a / b on numbers: an integer when b divides a, otherwise the fraction in
\* lowest terms; a / 0 is NaN for a = 0 and an infinity otherwise.
JsDivide(a, b) ==
  IF b.n = 0
  THEN IF a.n = 0 THEN NaN
       ELSE [t |-> "number", inf |-> IF a.n > 0 THEN 1 ELSE -1]
  ELSE LET g == Gcd(Abs(a.n), Abs(b.n))
           sign == IF (a.n < 0) = (b.n < 0) THEN 1 ELSE -1
           num == sign * (Abs(a.n) \div g)
           den == Abs(b.n) \div g
       IN  IF den = 1 THEN Num(num) ELSE [t |-> "number", num |-> num, den |-> den]

\* new NetworkError(): ref is the identity of the object made.
NewNetworkError == [t |-> "object", _tag |-> "NetworkError", ref |-> 3]

\* new InvalidNumber(n)
NewInvalidNumber(n) == [t |-> "object", _tag |-> "InvalidNumber", number |-> n.n, ref |-> 4]

\* A value thrown instead of returned: the expression evaluated is abandoned.
Throw(name) == [throw |-> name]

IsThrow(x) == "throw" \in DOMAIN x

\* { id, name }: a name is the sequence of its characters.
User(id, name) == [t |-> "object", id |-> id, name |-> name]

IsUser(x) == x.t = "object" /\ "name" \in DOMAIN x

Ada == <<"A", "d", "a">>

John == <<"J", "o", "h", "n">>

Names == {<<>>, <<"a">>, Ada, John}

Users == {User(1, n) : n \in Names}

LowerCase == <<"a", "d", "h", "n", "o">>

UpperCase == <<"A", "D", "H", "N", "O">>

\* c.toUpperCase() for one character
UpperChar(c) ==
  IF \E i \in 1..Len(LowerCase) : LowerCase[i] = c
  THEN UpperCase[CHOOSE i \in 1..Len(LowerCase) : LowerCase[i] = c]
  ELSE c

\* s.toUpperCase()
toUpperCase(s) == [i \in 1..Len(s) |-> UpperChar(s[i])]

RECURSIVE Join(_, _)
\* chars.join(sep)
Join(chars, sep) ==
  IF chars = <<>> THEN ""
  ELSE IF Len(chars) = 1 THEN chars[1]
  ELSE chars[1] \o sep \o Join(Tail(chars), sep)

\* toInitials(u)
toInitials(u) ==
  IF Len(u.name) < 2 THEN Error(Str("too short"))
  ELSE Ok(Str(u.name[1] \o u.name[2]))

\* validateNameLength(user, length)
validateNameLength(user, length) ==
  IF Len(user.name) >= length THEN Ok(user) ELSE Error(Str("Invalid length"))

\* upperCaseName(user): split(''), upper-case chars[0], join(); chars[0] of
\* an empty name is undefined and calling toUpperCase on it throws; join()
\* without argument separates with commas.
upperCaseName(user) ==
  IF user.name = <<>> THEN Throw("TypeError")
  ELSE Str(Join(<<UpperChar(user.name[1])>> \o Tail(user.name), ","))

ResMapFns == {"double", "square", "halve"}

ResFlatMapFns == {"half", "ensureEven", "positive"}

ResMapErrorFns == {"warn"}

\* The callbacks given to map, flatMap and mapError:
\*   double      double
\*   square      (n) => n * n
\*   halve       (n) => n / 2, given even numbers only
\*   half        half
\*   ensureEven  (n) => n % 2 === 0 ? Result.Ok(n) : Result.Error('not even')
\*   positive    positive
\*   ensurePositive, under100, ensureNot0, ensurePositiveLesson: the functions
\*   valueLabel         (pos) => `value = ${pos}`
\*   okValueLabel       (pos) => Result.Ok(`value = ${pos}`)
\*   invalidIfNegative  (n) => (n < 0 ? Result.Error(new InvalidNumber(n)) : Result.Ok(n))
\*   dollars            (n) => `$${n.toFixed(2)}`
\*   invalidOrFixed     (n) => n < 0 ? Result.Error(new InvalidNumber(n)) : Result.Ok(n.toFixed(2))
\*   halfOrNotEven      (n) => (n % 2 === 0 ? Result.Ok(n / 2) : Result.Error('Not even'))
\*   Result.Error       Result.Error
\*   warn        (e) => `(!) ${e}`, "(!)" standing for the warning sign
\*   upperUser   (u) => ({ ...u, name: u.name.toUpperCase() })
\*   toInitials, upperCaseName, and (user) => validateNameLength(user, 10)
ApplyResFn(fn, x) ==
  CASE fn = "double" -> double(x)
    [] fn = "square" -> Num(x.n * x.n)
    [] fn = "halve" -> Num(x.n \div 2)
    [] fn = "half" -> half(x)
    [] fn = "ensureEven" -> IF x.n % 2 = 0 THEN Ok(x) ELSE Error(Str("not even"))
    [] fn = "positive" -> positive(x)
    [] fn = "ensurePositive" -> ensurePositive(x)
    [] fn = "under100" -> under100(x)
    [] fn = "ensureNot0" -> ensureNot0(x)
    [] fn = "ensurePositiveLesson" -> ensurePositiveLesson(x)
    [] fn = "valueLabel" -> Str("value = " \o ToStr(x))
    [] fn = "okValueLabel" -> Ok(Str("value = " \o ToStr(x)))
    [] fn = "invalidIfNegative" -> IF x.n < 0 THEN Error(NewInvalidNumber(x)) ELSE Ok(x)
    [] fn = "dollars" -> Str("$" \o toFixed(x.n, 2))
    [] fn = "invalidOrFixed" ->
         IF x.n < 0 THEN Error(NewInvalidNumber(x)) ELSE Ok(Str(toFixed(x.n, 2)))
    [] fn = "halfOrNotEven" ->
         IF x.n % 2 = 0 THEN Ok(Num(x.n \div 2)) ELSE Error(Str("Not even"))
    [] fn = "Result.Error" -> Error(x)
    [] fn = "warn" -> Str("(!) " \o ToStr(x))
    [] fn = "upperUser" -> [x EXCEPT !.name = toUpperCase(x.name)]
    [] fn = "toInitials" -> toInitials(x)
    [] fn = "upperCaseName" -> upperCaseName(x)
    [] fn = "validateNameLength10" -> validateNameLength(x, 10)

\* result.map(f), on a pipeline state [v, log].
ResultMap(st, fn) ==
  IF IsThrow(st.v) \/ st.v.tag # "Ok" THEN st
  ELSE LET y == ApplyResFn(fn, st.v.value)
       IN  [v |-> IF IsThrow(y) THEN y ELSE Ok(y),
            log |-> Append(st.log, Call(fn, st.v.value))]

\* result.flatMap(f), on a pipeline state [v, log].
ResultFlatMap(st, fn) ==
  IF IsThrow(st.v) \/ st.v.tag # "Ok" THEN st
  ELSE [v |-> ApplyResFn(fn, st.v.value), log |-> Append(st.log, Call(fn, st.v.value))]

\* result.mapError(f), on a pipeline state [v, log].
ResultMapError(st, fn) ==
  IF IsThrow(st.v) \/ st.v.tag # "Error" THEN st
  ELSE [v |-> Error(ApplyResFn(fn, st.v.error)), log |-> Append(st.log, Call(fn, st.v.error))]


\* result.match({ Ok: okFn, Error: errorFn }), on a pipeline state [v, log]:
\* what the function of the variant returns.
ResultMatch(st, okFn, errorFn) ==
  IF IsThrow(st.v) THEN st
  ELSE IF st.v.tag = "Ok"
  THEN [v |-> ApplyResFn(okFn, st.v.value), log |-> Append(st.log, Call(okFn, st.v.value))]
  ELSE [v |-> ApplyResFn(errorFn, st.v.error), log |-> Append(st.log, Call(errorFn, st.v.error))]

Started(v) == [v |-> v, log |-> <<>>]

MutParseNumberParseInt(s) ==
  LET n == parseInt(s)
  IN  IF NumberIsNaN(n) THEN Error(Str("not a number")) ELSE Ok(n)

\* parseNumber(s)
parseNumber(s) ==
  LET n == Number(s)
  IN  IF NumberIsNaN(n) THEN Error(Str("not a number")) ELSE Ok(n)

\* parseIntResult(raw)
parseIntResult(raw) ==
  LET n == parseInt(raw)
  IN  IF NumberIsNaN(n) THEN Error(Str("NaN")) ELSE Ok(n)

MutHalfIfEvenRewrapsError(raw) ==
  LET st == ResultMap(ResultFlatMap(Started(parseNumber(raw)), "ensureEven"), "halve")
  IN  IF st.v.tag = "Error"
      THEN [v |-> Error(Str("invalid")), log |-> Append(st.log, Call("halve", NaN))]
      ELSE st

\* halfIfEven(raw): parseNumber, flatMap to ensure even, map to divide by 2.
halfIfEven(raw) ==
  ResultMap(ResultFlatMap(Started(parseNumber(raw)), "ensureEven"), "halve")

MutHalfIfEvenFlatNested(raw) == ResultMap(Started(parseIntResult(raw)), "half")

\* halfIfEven_flat(raw)
halfIfEvenFlat(raw) == ResultFlatMap(Started(parseIntResult(raw)), "half")


\* halfIfEven(raw) of 08-results.tsx, the file halfIfEvenPretty imports it
\* from: throw new Error('TODO')
halfIfEvenTodo(raw) == [v |-> Throw("TODO"), log |-> <<>>]

\* halfIfEvenPretty(raw)
halfIfEvenPretty(raw) == ResultMapError(halfIfEvenTodo(raw), "warn")

MutParseAndDoubleOnError(raw) ==
  LET r == parseIntResult(raw)
  IN  IF r.tag = "Ok" THEN ResultMap(Started(r), "double")
      ELSE [v |-> Error(Str("NaNNaN")), log |-> <<Call("double", r.error)>>]

\* parseAndDouble(raw)
parseAndDouble(raw) == ResultMap(Started(parseIntResult(raw)), "double")

\* squareIfNumber(raw)
squareIfNumber(raw) == ResultMap(Started(parseNumber(raw)), "square")

\* positiveSquare(raw)
positiveSquare(raw) ==
  ResultMap(ResultFlatMap(Started(parseNumber(raw)), "positive"), "square")


\* parseIntResult(raw).flatMap(ensurePositive).flatMap(under100): the
\* expression of the constants success, over100 and negative.
under100Chain(raw) ==
  ResultFlatMap(ResultFlatMap(Started(parseIntResult(raw)), "ensurePositive"), "under100")


\* halfIfEven(raw) of 08.1-solution.ts: parseNumber(raw).match({ Ok, Error })
halfIfEvenMatch(raw) == ResultMatch(Started(parseNumber(raw)), "halfOrNotEven", "Result.Error")

\* nestedMatches(raw) of lesson 09: a match inside the Ok function of a match.
nestedMatches(raw) ==
  LET asyncData == Started(parseIntResult(raw))
  IN  IF asyncData.v.tag = "Error" THEN ResultMatch(asyncData, "none", "Result.Error")
      ELSE LET b == [v |-> ensurePositiveLesson(asyncData.v.value),
                     log |-> <<Call("ensurePositiveLesson", asyncData.v.value)>>]
           IN  ResultMatch(b, "okValueLabel", "Result.Error")

\* nestedMatchesImproved(raw) of the 09 solution
nestedMatchesImproved(raw) ==
  ResultMap(ResultFlatMap(Started(parseIntResult(raw)), "ensurePositive"), "valueLabel")

\* safeDivide(a, b): the log holds the strings parsed and the callbacks
\* invoked.
safeDivide(a, b) ==
  LET ra == parseIntResult(a)
      inner == ResultFlatMap([v |-> parseIntResult(b), log |-> <<Call("parseIntResult", b)>>],
                             "ensureNot0")
  IN  IF ra.tag # "Ok" THEN [v |-> ra, log |-> <<Call("parseIntResult", a)>>]
      ELSE IF inner.v.tag # "Ok"
      THEN [v |-> inner.v, log |-> <<Call("parseIntResult", a)>> \o inner.log]
      ELSE [v |-> Ok(JsDivide(ra.value, inner.v.value)),
            log |-> <<Call("parseIntResult", a)>> \o inner.log
                      \o <<Call("divide", <<ra.value, inner.v.value>>)>>]

MutFetchNumberThrows(flag, high) ==
  IF flag THEN Throw("NetworkError") ELSE Ok(Num(IF high THEN -5 ELSE 42))

\* fetchNumber(flag) of 08.1-solution.tsx; high is the outcome of
\* Math.random() > 0.5.
fetchNumber(flag, high) ==
  LET number == IF high THEN -5 ELSE 42
  IN  IF flag THEN Error(NewNetworkError) ELSE Ok(Num(number))

\* fetchNumber(flag) of 08.1-solution.ts
fetchNumberMatch(flag, high) ==
  IF flag THEN Error(NewNetworkError)
  ELSE LET n == IF high THEN -5 ELSE 42 IN Ok(Num(n))

\* formatPositiveCurrency(flag) of 08.1-solution.tsx
formatPositiveCurrency(flag, high) ==
  ResultMap(ResultFlatMap(Started(fetchNumber(flag, high)), "invalidIfNegative"), "dollars")

\* formatPositiveCurrency(flag) of 08.1-solution.ts
formatPositiveCurrencyMatch(flag, high) ==
  ResultMatch(Started(fetchNumberMatch(flag, high)), "invalidOrFixed", "Result.Error")

ResFunctions ==
  {"halfIfEven", "halfIfEven_flat", "parseAndDouble", "squareIfNumber", "positiveSquare",
   "under100Chain", "halfIfEvenMatch", "nestedMatches", "nestedMatchesImproved",
   "halfIfEvenPretty"}

RunResFunction(f, raw) ==
  CASE f = "halfIfEven" -> halfIfEven(raw)
    [] f = "halfIfEven_flat" -> halfIfEvenFlat(raw)
    [] f = "parseAndDouble" -> parseAndDouble(raw)
    [] f = "squareIfNumber" -> squareIfNumber(raw)
    [] f = "positiveSquare" -> positiveSquare(raw)
    [] f = "under100Chain" -> under100Chain(raw)
    [] f = "halfIfEvenMatch" -> halfIfEvenMatch(raw)
    [] f = "nestedMatches" -> nestedMatches(raw)
    [] f = "nestedMatchesImproved" -> nestedMatchesImproved(raw)
    [] f = "halfIfEvenPretty" -> halfIfEvenPretty(raw)

ResInit ==
  /\ rOp = "none"
  /\ rIn = <<>>
  /\ rOrigin = Ok(Num(0))
  /\ rChain = <<>>
  /\ rPrev = Started(Ok(Num(0)))
  /\ rFn = "none"
  /\ rVal = Ok(Num(0))
  /\ rLog = <<>>

\* Result.Ok(x) / Result.Error(e): starts a pipeline.
CallResultNew ==
  /\ rOp = "none"
  /\ \E r \in {Ok(Num(n)) : n \in OkNumbers} \cup {Error(e) : e \in ErrorValues} :
      /\ rOp' = "new"
      /\ rOrigin' = r
      /\ rChain' = <<>>
      /\ rPrev' = Started(r)
      /\ rFn' = "none"
      /\ rVal' = r
      /\ rLog' = <<>>
      /\ UNCHANGED rIn
      /\ UNCHANGED <<mvars, ovars, avars, hvars, gvars, evars, uvars>>

InResPipeline == rOp \in {"new", "map", "flatMap", "mapError"}

ResStep(op, st, fn) ==
  /\ rOp' = op
  /\ rChain' = Append(rChain, op)
  /\ rPrev' = [v |-> rVal, log |-> rLog]
  /\ rFn' = fn
  /\ rVal' = st.v
  /\ rLog' = st.log
  /\ UNCHANGED <<rIn, rOrigin>>
  /\ UNCHANGED <<mvars, ovars, avars, hvars, gvars, evars, uvars>>

\* value.map(f)
CallResultMap ==
  \E fn \in ResMapFns :
    /\ InResPipeline /\ Len(rChain) < MaxResSteps
    /\ fn = "halve" => (rVal.tag = "Ok" => rVal.value.n % 2 = 0)
    /\ ResStep("map", ResultMap([v |-> rVal, log |-> rLog], fn), fn)

\* value.flatMap(f)
CallResultFlatMap ==
  \E fn \in ResFlatMapFns :
    /\ InResPipeline /\ Len(rChain) < MaxResSteps
    /\ ResStep("flatMap", ResultFlatMap([v |-> rVal, log |-> rLog], fn), fn)

\* value.mapError(f)
CallResultMapError ==
  \E fn \in ResMapErrorFns :
    /\ InResPipeline /\ Len(rChain) < MaxResSteps
    /\ ResStep("mapError", ResultMapError([v |-> rVal, log |-> rLog], fn), fn)

\* One of the exported functions is called with a string.
CallResFunction ==
  /\ rOp = "none"
  /\ \E f \in ResFunctions, raw \in RawStrings :
      /\ rOp' = f
      /\ rIn' = raw
      /\ rOrigin' = IF f \in {"halfIfEven", "halfIfEvenMatch", "squareIfNumber", "positiveSquare"}
                    THEN parseNumber(raw) ELSE parseIntResult(raw)
      /\ rVal' = RunResFunction(f, raw).v
      /\ rLog' = RunResFunction(f, raw).log
      /\ UNCHANGED <<rChain, rPrev, rFn>>
      /\ UNCHANGED <<mvars, ovars, avars, hvars, gvars, evars, uvars>>


\* The first operands safeDivide is called with.
DividendStrings == {<<"1", "0">>, <<"7">>, <<"-", "8">>, <<"0">>, <<"x">>, <<>>}

\* safeDivide(a, b)
CallSafeDivide ==
  /\ rOp = "none"
  /\ \E a \in DividendStrings, b \in RawStrings :
      /\ rOp' = "safeDivide"
      /\ rIn' = [a |-> a, b |-> b]
      /\ rOrigin' = parseIntResult(a)
      /\ rVal' = safeDivide(a, b).v
      /\ rLog' = safeDivide(a, b).log
      /\ UNCHANGED <<rChain, rPrev, rFn>>
      /\ UNCHANGED <<mvars, ovars, avars, hvars, gvars, evars, uvars>>

\* formatPositiveCurrency(flag) of 08.1-solution.tsx
CallFormatPositiveCurrency ==
  /\ rOp = "none"
  /\ \E flag \in BOOLEAN, high \in BOOLEAN :
      /\ rOp' = "formatPositiveCurrency"
      /\ rIn' = [flag |-> flag, high |-> high]
      /\ rOrigin' = fetchNumber(flag, high)
      /\ rVal' = formatPositiveCurrency(flag, high).v
      /\ rLog' = formatPositiveCurrency(flag, high).log
      /\ UNCHANGED <<rChain, rPrev, rFn>>
      /\ UNCHANGED <<mvars, ovars, avars, hvars, gvars, evars, uvars>>

\* formatPositiveCurrency(flag) of 08.1-solution.ts
CallFormatPositiveCurrencyMatch ==
  /\ rOp = "none"
  /\ \E flag \in BOOLEAN, high \in BOOLEAN :
      /\ rOp' = "formatPositiveCurrencyMatch"
      /\ rIn' = [flag |-> flag, high |-> high]
      /\ rOrigin' = fetchNumberMatch(flag, high)
      /\ rVal' = formatPositiveCurrencyMatch(flag, high).v
      /\ rLog' = formatPositiveCurrencyMatch(flag, high).log
      /\ UNCHANGED <<rChain, rPrev, rFn>>
      /\ UNCHANGED <<mvars, ovars, avars, hvars, gvars, evars, uvars>>

\* The value is dropped; the next call starts afresh.
ResDiscard ==
  /\ rOp # "none"
  /\ rOp' = "none"
  /\ rIn' = <<>>
  /\ rOrigin' = Ok(Num(0))
  /\ rChain' = <<>>
  /\ rPrev' = Started(Ok(Num(0)))
  /\ rFn' = "none"
  /\ rVal' = Ok(Num(0))
  /\ rLog' = <<>>
  /\ UNCHANGED <<mvars, ovars, avars, hvars, gvars, evars, uvars>>

ResultNext ==
  \/ CallResultNew
  \/ CallResultMap
  \/ CallResultFlatMap
  \/ CallResultMapError
  \/ CallResFunction
  \/ ResDiscard
  \/ CallFormatPositiveCurrencyMatch
  \/ CallFormatPositiveCurrency
  \/ CallSafeDivide

(***************************************************************************)
(* 4. AsyncData                                                            *)
(***************************************************************************)

\* Longest chain of calls the AsyncData pipeline actions build.
MaxAsyncSteps == 2

\* AsyncData.NotAsked()
NotAsked == [tag |-> "NotAsked"]

\* AsyncData.Loading()
Loading == [tag |-> "Loading"]

\* AsyncData.Done(value)
Done(value) == [tag |-> "Done", value |-> value]

\* res => res.flatMap(toInitials) and r => r.map(u => ({ ...u, name: ... })),
\* the callbacks the lesson gives to AsyncData.map, and two callbacks for
\* AsyncData.flatMap, r => AsyncData.Loading() and r => AsyncData.Done(r):
\* [v |-> what the callback returns, log |-> the callbacks it invoked].
ApplyAsyncFn(fn, r) ==
  CASE fn = "uppercaseInner" -> ResultMap(Started(r), "upperUser")
    [] fn = "initialsInner" -> ResultFlatMap(Started(r), "toInitials")
    [] fn = "toLoading" -> Started(Loading)
    [] fn = "redo" -> Started(Done(r))

AsyncMapFns == {"uppercaseInner", "initialsInner"}

AsyncFlatMapFns == {"toLoading", "redo"}

AsyncMapOkFns == {"upperUser", "upperCaseName"}

AsyncMapOkToResultFns == {"toInitials", "validateNameLength10"}

\* asyncData.map(f), on a pipeline state [v, log].
AsyncMap(st, fn) ==
  IF IsThrow(st.v) \/ st.v.tag # "Done" THEN st
  ELSE LET r == ApplyAsyncFn(fn, st.v.value)
       IN  [v |-> IF IsThrow(r.v) THEN r.v ELSE Done(r.v),
            log |-> st.log \o <<Call(fn, st.v.value)>> \o r.log]

\* asyncData.flatMap(f), on a pipeline state [v, log].
AsyncFlatMap(st, fn) ==
  IF IsThrow(st.v) \/ st.v.tag # "Done" THEN st
  ELSE LET r == ApplyAsyncFn(fn, st.v.value)
       IN  [v |-> r.v, log |-> st.log \o <<Call(fn, st.v.value)>> \o r.log]

\* asyncData.mapOk(f): map over the Result inside Done.
AsyncMapOk(st, fn) ==
  IF IsThrow(st.v) \/ st.v.tag # "Done" THEN st
  ELSE LET r == ResultMap([v |-> st.v.value, log |-> st.log], fn)
       IN  [v |-> IF IsThrow(r.v) THEN r.v ELSE Done(r.v), log |-> r.log]

\* asyncData.mapOkToResult(f): flatMap over the Result inside Done.
AsyncMapOkToResult(st, fn) ==
  IF IsThrow(st.v) \/ st.v.tag # "Done" THEN st
  ELSE LET r == ResultFlatMap([v |-> st.v.value, log |-> st.log], fn)
       IN  [v |-> IF IsThrow(r.v) THEN r.v ELSE Done(r.v), log |-> r.log]

\* idle, loading, okUser, koUser, and their like with other users and errors.
idle == NotAsked

loading == Loading

okUser == Done(Ok(User(1, Ada)))

koUser == Done(Error(Str("404")))

AsyncValues ==
  {NotAsked, Loading}
    \cup {Done(Ok(u)) : u \in Users}
    \cup {Done(Error(Str(e))) : e \in {"404", "network"}}

MutUppercaseNameTouchesError(ad) ==
  IF ad.tag = "Done" /\ ad.value.tag = "Error"
  THEN [v |-> Done(Error(Str("ERROR"))),
        log |-> <<Call("uppercaseInner", ad.value), Call("upperUser", ad.value.error)>>]
  ELSE AsyncMap(Started(ad), "uppercaseInner")

\* uppercaseName(ad)
uppercaseName(ad) == AsyncMap(Started(ad), "uppercaseInner")

\* initials = okUser.map((res) => res.flatMap(toInitials))
initials == AsyncMap(Started(okUser), "initialsInner")

\* if (x): undefined, null, 0, NaN, "" and false are falsy.
Truthy(x) ==
  CASE x.t \in {"undefined", "null"} -> FALSE
    [] x.t = "number" -> IF NumberIsNaN(x) THEN FALSE ELSE x.n # 0
    [] x.t = "string" -> x.s # ""
    [] x.t = "boolean" -> x.b
    [] OTHER -> TRUE

QueryData == {JsUndefined, Num(0), Str(""), Bool(FALSE)} \cup Users

QueryErrors == {JsUndefined, Str(""), Str("404")}

QueryResults == [data : QueryData, error : QueryErrors, isLoading : BOOLEAN]

MutFromTanstackQueryFlags(queryResult) ==
  IF Truthy(queryResult.data)
  THEN IF queryResult.isLoading
       THEN [tag |-> "Loading", value |-> Ok(queryResult.data)]
       ELSE Done(Ok(queryResult.data))
  ELSE IF Truthy(queryResult.error) THEN Done(Error(queryResult.error))
  ELSE IF queryResult.isLoading THEN Loading
  ELSE NotAsked

\* fromTanstackQuery(queryResult)
fromTanstackQuery(queryResult) ==
  IF Truthy(queryResult.data) THEN Done(Ok(queryResult.data))
  ELSE IF Truthy(queryResult.error) THEN Done(Error(queryResult.error))
  ELSE IF queryResult.isLoading THEN Loading
  ELSE NotAsked


\* fromTanstackQuery of the exercise file: throw new Error('TODO')
fromTanstackQueryStub(queryResult) == Throw("TODO")

\* fetchUserAsyncData()
fetchUserAsyncData == Done(Ok(User(234, John)))

\* result = fetchUserAsyncData().mapOkToResult(...).mapOk(upperCaseName)
result ==
  AsyncMapOk(
    AsyncMapOkToResult(Started(fetchUserAsyncData), "validateNameLength10"),
    "upperCaseName")


\* A name of ten characters.
LongName == <<"j", "o", "h", "n", "a", "d", "a", "n", "o", "h">>

\* The users the pipeline of result is run on.
PipelineUsers == Users \cup {User(234, LongName)}

\* ad.mapOkToResult((user) => validateNameLength(user, 10)).mapOk(upperCaseName)
resultFor(ad) ==
  AsyncMapOk(AsyncMapOkToResult(Started(ad), "validateNameLength10"), "upperCaseName")

AsyncInit ==
  /\ aOp = "none"
  /\ aIn = NotAsked
  /\ aOrigin = NotAsked
  /\ aChain = <<>>
  /\ aPrev = Started(NotAsked)
  /\ aFn = "none"
  /\ aVal = NotAsked
  /\ aLog = <<>>

AsyncStart(op, in, v, log) ==
  /\ aOp = "none"
  /\ aOp' = op
  /\ aIn' = in
  /\ aOrigin' = v
  /\ aChain' = <<>>
  /\ aPrev' = Started(v)
  /\ aFn' = "none"
  /\ aVal' = v
  /\ aLog' = log
  /\ UNCHANGED <<mvars, ovars, rvars, hvars, gvars, evars, uvars>>

\* AsyncData.NotAsked() / Loading() / Done(Result.Ok(..)) / Done(Result.Error(..))
CallAsyncNew == \E ad \in AsyncValues : AsyncStart("new", ad, ad, <<>>)

CallFromTanstackQuery ==
  \E q \in QueryResults :
    AsyncStart("fromTanstackQuery", q, fromTanstackQuery(q), <<>>)


CallFromTanstackQueryStub ==
  \E q \in QueryResults :
    AsyncStart("fromTanstackQueryStub", q, fromTanstackQueryStub(q), <<>>)

\* A value to go on from: one a constructor or fromTanstackQuery made, or
\* one of the exported pipelines.
InAsyncPipeline ==
  /\ aOp \in {"new", "fromTanstackQuery", "map", "flatMap", "mapOk", "mapOkToResult"}
  /\ ~IsThrow(aVal)
  /\ Len(aChain) < MaxAsyncSteps

\* The callbacks that read a User are given a Result<User, string>.
HoldsUser == aVal.tag = "Done" /\ aVal.value.tag = "Ok" => IsUser(aVal.value.value)

AsyncStep(op, st, fn) ==
  /\ aOp' = op
  /\ aChain' = Append(aChain, op)
  /\ aPrev' = [v |-> aVal, log |-> aLog]
  /\ aFn' = fn
  /\ aVal' = st.v
  /\ aLog' = st.log
  /\ UNCHANGED <<aIn, aOrigin>>
  /\ UNCHANGED <<mvars, ovars, rvars, hvars, gvars, evars, uvars>>

CallAsyncMap ==
  \E fn \in AsyncMapFns :
    /\ InAsyncPipeline /\ HoldsUser
    /\ AsyncStep("map", AsyncMap([v |-> aVal, log |-> aLog], fn), fn)

CallAsyncFlatMap ==
  \E fn \in AsyncFlatMapFns :
    /\ InAsyncPipeline
    /\ AsyncStep("flatMap", AsyncFlatMap([v |-> aVal, log |-> aLog], fn), fn)

CallAsyncMapOk ==
  \E fn \in AsyncMapOkFns :
    /\ InAsyncPipeline /\ HoldsUser
    /\ AsyncStep("mapOk", AsyncMapOk([v |-> aVal, log |-> aLog], fn), fn)

CallAsyncMapOkToResult ==
  \E fn \in AsyncMapOkToResultFns :
    /\ InAsyncPipeline /\ HoldsUser
    /\ AsyncStep("mapOkToResult", AsyncMapOkToResult([v |-> aVal, log |-> aLog], fn), fn)

CallUppercaseName ==
  \E ad \in AsyncValues :
    AsyncStart("uppercaseName", ad, uppercaseName(ad).v, uppercaseName(ad).log)

\* The module-level constants initials and result are evaluated.
EvalInitials == AsyncStart("initials", okUser, initials.v, initials.log)

EvalResult == AsyncStart("result", fetchUserAsyncData, result.v, result.log)


\* The pipeline of result, on what a fetch of another user gives.
EvalResultFor ==
  \E user \in PipelineUsers :
    AsyncStart("resultFor", Done(Ok(user)),
               resultFor(Done(Ok(user))).v, resultFor(Done(Ok(user))).log)

\* The value is dropped; the next call starts afresh.
AsyncDiscard ==
  /\ aOp # "none"
  /\ aOp' = "none"
  /\ aIn' = NotAsked
  /\ aOrigin' = NotAsked
  /\ aChain' = <<>>
  /\ aPrev' = Started(NotAsked)
  /\ aFn' = "none"
  /\ aVal' = NotAsked
  /\ aLog' = <<>>
  /\ UNCHANGED <<mvars, ovars, rvars, hvars, gvars, evars, uvars>>

AsyncNext ==
  \/ CallAsyncNew
  \/ CallFromTanstackQuery
  \/ CallAsyncMap
  \/ CallAsyncFlatMap
  \/ CallAsyncMapOk
  \/ CallAsyncMapOkToResult
  \/ CallUppercaseName
  \/ EvalInitials
  \/ EvalResult
  \/ AsyncDiscard
  \/ CallFromTanstackQueryStub
  \/ EvalResultFor

(***************************************************************************)
(* 5. Objects and references                                               *)
(*                                                                         *)
(* The User objects and the arrays the functions make live in a heap and   *)
(* a value holds an object by its reference, so that writing into an       *)
(* object is told apart from making a new one.  The values boxed makes     *)
(* (NotAsked, Loading, Done, Ok, Error) are immutable.                     *)
(***************************************************************************)

MaxHeap == 4

Refs == 1..MaxHeap

Free == [kind |-> "free"]

\* { id, name }
UserObject(id, name) == [kind |-> "user", id |-> id, name |-> name]

\* An array of one-character strings.
ArrayObject(elems) == [kind |-> "array", elems |-> elems]

Ref(r) == [t |-> "ref", ref |-> r]

HasFree(heap) == \E r \in Refs : heap[r] = Free

\* The reference the next object gets.
NextRef(heap) == CHOOSE r \in Refs : heap[r] = Free /\ \A q \in Refs : heap[q] = Free => r <= q

Alloc(heap, obj) == [heap EXCEPT ![NextRef(heap)] = obj]

\* A call on the heap: what it returns and the heap it leaves.
HeapResult(out, heap) == [out |-> out, heap |-> heap]

HoldsUserRef(ad) ==
  /\ ~IsThrow(ad)
  /\ ad.tag = "Done"
  /\ ad.value.tag = "Ok"
  /\ ad.value.value.t = "ref"

MutUppercaseNameInPlace(ad, heap) ==
  IF ~HoldsUserRef(ad) THEN HeapResult(ad, heap)
  ELSE LET u == ad.value.value.ref
       IN  HeapResult(ad, [heap EXCEPT ![u].name = toUpperCase(heap[u].name)])

\* uppercaseName(ad) = ad.map((r) => r.map((u) => ({ ...u, name:
\* u.name.toUpperCase() }))): the object literal is a new object.
uppercaseNameHeap(ad, heap) ==
  IF ~HoldsUserRef(ad) THEN HeapResult(ad, heap)
  ELSE LET u == heap[ad.value.value.ref]
       IN  HeapResult(Done(Ok(Ref(NextRef(heap)))),
                      Alloc(heap, UserObject(u.id, toUpperCase(u.name))))

\* ad.mapOkToResult((user) => validateNameLength(user, length)):
\* validateNameLength returns Result.Ok(user), the object it was given.
validateNameLengthHeap(ad, length, heap) ==
  IF ~HoldsUserRef(ad) THEN HeapResult(ad, heap)
  ELSE LET user == heap[ad.value.value.ref]
       IN  IF Len(user.name) >= length THEN HeapResult(Done(Ok(ad.value.value)), heap)
           ELSE HeapResult(Done(Error(Str("Invalid length"))), heap)

\* ad.mapOk(upperCaseName): chars = user.name.split('') is a new array,
\* chars[0] = chars[0].toUpperCase() writes into it (and throws when the
\* name is empty), chars.join() is a new string.
upperCaseNameHeap(ad, heap) ==
  IF ~HoldsUserRef(ad) THEN HeapResult(ad, heap)
  ELSE LET user == heap[ad.value.value.ref]
           chars == NextRef(heap)
           split == Alloc(heap, ArrayObject(user.name))
       IN  IF user.name = <<>> THEN HeapResult(Throw("TypeError"), split)
           ELSE LET written == [split EXCEPT ![chars].elems[1] = UpperChar(split[chars].elems[1])]
                IN  HeapResult(Done(Ok(Str(Join(written[chars].elems, ",")))), written)

HeapInit ==
  /\ hOp = "none"
  /\ hHeap = [r \in Refs |-> Free]
  /\ hBefore = [r \in Refs |-> Free]
  /\ hRecv = NotAsked
  /\ hOut = NotAsked

\* AsyncData.Done(Result.Ok<User>({ id, name })): a new User object.
HeapNewUser ==
  \E id \in {1, 234}, name \in Names :
    /\ hOp = "none"
    /\ hOp' = "new"
    /\ hBefore' = hHeap
    /\ hHeap' = Alloc(hHeap, UserObject(id, name))
    /\ hRecv' = Done(Ok(Ref(NextRef(hHeap))))
    /\ hOut' = Done(Ok(Ref(NextRef(hHeap))))
    /\ UNCHANGED <<mvars, ovars, rvars, avars, gvars, evars, uvars>>

\* idle, loading, koUser: values that hold no object.
HeapNewOther ==
  \E ad \in {idle, loading, koUser} :
    /\ hOp = "none"
    /\ hOp' = "new"
    /\ hRecv' = ad
    /\ hOut' = ad
    /\ UNCHANGED <<hHeap, hBefore>>
    /\ UNCHANGED <<mvars, ovars, rvars, avars, gvars, evars, uvars>>

HeapCall(op, res) ==
  /\ hOp # "none"
  /\ HasFree(hHeap)
  /\ hOp' = op
  /\ hBefore' = hHeap
  /\ hHeap' = res.heap
  /\ hOut' = res.out
  /\ UNCHANGED hRecv
  /\ UNCHANGED <<mvars, ovars, rvars, avars, gvars, evars, uvars>>

HeapUppercaseName == HeapCall("uppercaseName", uppercaseNameHeap(hRecv, hHeap))

HeapValidateNameLength ==
  \E length \in {3, 10} :
    HeapCall("mapOkToResult", validateNameLengthHeap(hRecv, length, hHeap))

HeapUpperCaseName == HeapCall("mapOk", upperCaseNameHeap(hRecv, hHeap))

\* The next calls are made on what the last call returned.
HeapContinue ==
  /\ hOp \in {"uppercaseName", "mapOkToResult", "mapOk"}
  /\ ~IsThrow(hOut)
  /\ hOut # hRecv
  /\ hOp' = "continue"
  /\ hRecv' = hOut
  /\ UNCHANGED <<hHeap, hBefore, hOut>>
  /\ UNCHANGED <<mvars, ovars, rvars, avars, gvars, evars, uvars>>

\* The values are dropped and their objects collected.
HeapDiscard ==
  /\ hOp # "none"
  /\ hOp' = "none"
  /\ hHeap' = [r \in Refs |-> Free]
  /\ hBefore' = [r \in Refs |-> Free]
  /\ hRecv' = NotAsked
  /\ hOut' = NotAsked
  /\ UNCHANGED <<mvars, ovars, rvars, avars, gvars, evars, uvars>>

HeapNext ==
  \/ HeapNewUser
  \/ HeapNewOther
  \/ HeapUppercaseName
  \/ HeapValidateNameLength
  \/ HeapUpperCaseName
  \/ HeapContinue
  \/ HeapDiscard

(***************************************************************************)
(* 6. getMessage                                                           *)
(***************************************************************************)

MaxWeekLen == 3

\* { prototypesGenerated: n }
Usage(n) == [t |-> "object", prototypesGenerated |-> n]

\* DayUsage = Option<{ prototypesGenerated: number }>
DayUsages == {None} \cup {Some(Usage(n)) : n \in {0, 1, 3}}

\* LastWeek = DayUsage[]
LastWeeks == UNION {[1..n -> DayUsages] : n \in 0..MaxWeekLen}

\* Option.fromUndefined(x)
fromUndefined(x) == IF x = JsUndefined THEN None ELSE Some(x)

\* The function given to find: true for a day that was not tracked and for
\* a day with no prototypes generated.
IsEmptyDay(day) ==
  IF day.tag = "None" THEN TRUE ELSE day.value.prototypesGenerated = 0

RECURSIVE find(_)
\* lastWeek.find(IsEmptyDay): the first such day, undefined when there is none.
find(lastWeek) ==
  IF lastWeek = <<>> THEN JsUndefined
  ELSE IF IsEmptyDay(Head(lastWeek)) THEN Head(lastWeek)
  ELSE find(Tail(lastWeek))

Welcome == Str("Welcome to Arkhet! (we have no previous data of your activity)")

\* getMessage(lastWeek) written with ts-pattern: the function of the Some
\* case has a block body whose match expression is evaluated and dropped;
\* the block has no return statement, so the function returns undefined.
getMessagePattern(lastWeek) ==
  LET found == find(lastWeek)
      resultOption == fromUndefined(found)
  IN  IF MatchesPattern(resultOption, [tag |-> "None"]) THEN Welcome
      ELSE LET value == resultOption.value
               dropped == IF MatchesPattern(value, [tag |-> "None"])
                          THEN Str("Seems like you didn't log in yesterday!")
                          ELSE Str("I see you didn't generate any prototypes yesterday!")
           IN  JsUndefined

MutGetMessageFlat(lastWeek) ==
  LET found == find(lastWeek)
  IN  IF found = JsUndefined \/ found = None THEN Welcome
      ELSE Str("I see you didn't generate any prototypes last week!")

\* getMessage(lastWeek) of the 06 solution
getMessage(lastWeek) ==
  LET found == find(lastWeek)
      resultOption == fromUndefined(found)
  IN  IF resultOption.tag = "None" THEN Welcome
      ELSE IF resultOption.value.tag = "None"
      THEN Str("Seems like you didn't log in last week!")
      ELSE Str("I see you didn't generate any prototypes last week!")

MessageInit ==
  /\ gOp = "none"
  /\ gWeek = <<>>
  /\ gOut = JsUndefined

CallGetMessagePattern ==
  \E lastWeek \in LastWeeks :
    /\ gOp' = "getMessagePattern"
    /\ gWeek' = lastWeek
    /\ gOut' = getMessagePattern(lastWeek)
    /\ UNCHANGED <<mvars, ovars, rvars, avars, hvars, evars, uvars>>

CallGetMessage ==
  \E lastWeek \in LastWeeks :
    /\ gOp' = "getMessage"
    /\ gWeek' = lastWeek
    /\ gOut' = getMessage(lastWeek)
    /\ UNCHANGED <<mvars, ovars, rvars, avars, hvars, evars, uvars>>

MessageNext == CallGetMessagePattern \/ CallGetMessage

(***************************************************************************)
(* 7. Exceptions: try / catch / finally, one action per step               *)
(*                                                                         *)
(* A completion is what a block ends with: [type |-> "normal"],            *)
(* [type |-> "return", value |-> v] or [type |-> "throw", value |-> e].    *)
(* The lines of the console are written without their emoji.               *)
(***************************************************************************)

MaxCalls == 3

Normal == [type |-> "normal"]

Return(v) == [type |-> "return", value |-> v]

ThrowCompletion(e) == [type |-> "throw", value |-> e]

\* The caller receives the value of a return completion, or the exception
\* of a throw completion.
Received(completion) ==
  IF completion.type = "throw" THEN Thrown("Error", completion.value, <<>>)
  ELSE Returned(completion.value, <<>>)

\* try { throw new Error('something went wrong') }
mysteryTry == ThrowCompletion("something went wrong")

\* catch (e) { console.log('catch:', e.message); return 'catch return' }
mysteryCatch(e) == [line |-> "catch: " \o e, completion |-> Return("catch return")]

MutMysteryFinallyNoReturn(pending) ==
  [line |-> "finally runs", completion |-> pending]

\* finally { console.log('finally runs'); return 'finally return' }: the
\* return of the finally block replaces the pending completion.
mysteryFinally(pending) ==
  [line |-> "finally runs", completion |-> Return("finally return")]

\* fetchNumber(possibleFail) of lesson 07
fetchNumberThrowing(possibleFail) ==
  IF possibleFail THEN ThrowCompletion("network down") ELSE Return(Num(42))

ExceptionInit ==
  /\ ePc = "idle"
  /\ eArg = FALSE
  /\ eCompletion = Normal
  /\ eTrace = <<>>
  /\ eConsole = <<>>
  /\ eOut = Returned("", <<>>)
  /\ eCalls = 0

\* mystery() is called.
CallMystery ==
  /\ ePc = "idle" /\ eCalls < MaxCalls
  /\ ePc' = "mystery:try"
  /\ eCalls' = eCalls + 1
  /\ eTrace' = <<>>
  /\ eCompletion' = Normal
  /\ UNCHANGED <<eArg, eConsole, eOut>>
  /\ UNCHANGED <<mvars, ovars, rvars, avars, hvars, gvars, uvars>>

\* The try block throws.
MysteryThrow ==
  /\ ePc = "mystery:try"
  /\ eCompletion' = mysteryTry
  /\ eTrace' = Append(eTrace, "throw")
  /\ ePc' = "mystery:catch"
  /\ UNCHANGED <<eArg, eConsole, eOut, eCalls>>
  /\ UNCHANGED <<mvars, ovars, rvars, avars, hvars, gvars, uvars>>

\* The catch block logs and returns.
MysteryCatch ==
  /\ ePc = "mystery:catch"
  /\ eConsole' = Append(eConsole, mysteryCatch(eCompletion.value).line)
  /\ eCompletion' = mysteryCatch(eCompletion.value).completion
  /\ eTrace' = Append(eTrace, "catch logs")
  /\ ePc' = "mystery:finally"
  /\ UNCHANGED <<eArg, eOut, eCalls>>
  /\ UNCHANGED <<mvars, ovars, rvars, avars, hvars, gvars, uvars>>

\* The finally block logs and returns.
MysteryFinally ==
  /\ ePc = "mystery:finally"
  /\ eConsole' = Append(eConsole, mysteryFinally(eCompletion).line)
  /\ eCompletion' = mysteryFinally(eCompletion).completion
  /\ eTrace' = Append(eTrace, "finally logs")
  /\ ePc' = "mystery:exit"
  /\ UNCHANGED <<eArg, eOut, eCalls>>
  /\ UNCHANGED <<mvars, ovars, rvars, avars, hvars, gvars, uvars>>

\* The function ends; console.log('mystery() ->', mystery()) prints what
\* it received.
MysteryReturn ==
  /\ ePc = "mystery:exit"
  /\ eOut' = Received(eCompletion)
  /\ eTrace' = Append(eTrace, IF eCompletion.type = "throw" THEN "throws" ELSE "returns")
  /\ eConsole' = IF eCompletion.type = "throw" THEN eConsole
                 ELSE Append(eConsole, "mystery() -> " \o eCompletion.value)
  /\ ePc' = "idle"
  /\ UNCHANGED <<eArg, eCompletion, eCalls>>
  /\ UNCHANGED <<mvars, ovars, rvars, avars, hvars, gvars, uvars>>

\* formatCurrency(flag) is called.
CallFormatCurrency ==
  /\ ePc = "idle" /\ eCalls < MaxCalls
  /\ \E flag \in BOOLEAN :
      /\ eArg' = flag
      /\ ePc' = "formatCurrency:try"
      /\ eCalls' = eCalls + 1
      /\ eTrace' = <<>>
      /\ eCompletion' = Normal
      /\ UNCHANGED <<eConsole, eOut>>
      /\ UNCHANGED <<mvars, ovars, rvars, avars, hvars, gvars, uvars>>

\* try { const n = fetchNumber(flag); return `$${n.toFixed(2)}` }
FormatCurrencyTry ==
  /\ ePc = "formatCurrency:try"
  /\ LET n == fetchNumberThrowing(eArg)
     IN  IF n.type = "throw"
         THEN /\ eCompletion' = n
              /\ eTrace' = Append(eTrace, "throw")
              /\ ePc' = "formatCurrency:catch"
         ELSE /\ eCompletion' = Return("$" \o toFixed(n.value.n, 2))
              /\ eTrace' = eTrace
              /\ ePc' = "formatCurrency:exit"
  /\ UNCHANGED <<eArg, eConsole, eOut, eCalls>>
  /\ UNCHANGED <<mvars, ovars, rvars, avars, hvars, gvars, uvars>>

\* catch (e) { console.error(e) }
FormatCurrencyCatch ==
  /\ ePc = "formatCurrency:catch"
  /\ eConsole' = Append(eConsole, "Error: " \o eCompletion.value)
  /\ eCompletion' = Normal
  /\ eTrace' = Append(eTrace, "catch logs")
  /\ ePc' = "formatCurrency:after"
  /\ UNCHANGED <<eArg, eOut, eCalls>>
  /\ UNCHANGED <<mvars, ovars, rvars, avars, hvars, gvars, uvars>>

\* return 'N/A'
FormatCurrencyAfter ==
  /\ ePc = "formatCurrency:after"
  /\ eCompletion' = Return("N/A")
  /\ ePc' = "formatCurrency:exit"
  /\ UNCHANGED <<eArg, eTrace, eConsole, eOut, eCalls>>
  /\ UNCHANGED <<mvars, ovars, rvars, avars, hvars, gvars, uvars>>

FormatCurrencyReturn ==
  /\ ePc = "formatCurrency:exit"
  /\ eOut' = Received(eCompletion)
  /\ eTrace' = Append(eTrace, IF eCompletion.type = "throw" THEN "throws" ELSE "returns")
  /\ ePc' = "idle"
  /\ UNCHANGED <<eArg, eCompletion, eConsole, eCalls>>
  /\ UNCHANGED <<mvars, ovars, rvars, avars, hvars, gvars, uvars>>

ExceptionNext ==
  \/ CallMystery
  \/ MysteryThrow
  \/ MysteryCatch
  \/ MysteryFinally
  \/ MysteryReturn
  \/ CallFormatCurrency
  \/ FormatCurrencyTry
  \/ FormatCurrencyCatch
  \/ FormatCurrencyAfter
  \/ FormatCurrencyReturn

(***************************************************************************)
(* 8. React: render, UserCard and UserCardLegacy                           *)
(*                                                                         *)
(* A component is its state, the effect that is due after a render with a  *)
(* new id, and the text of its last render.  A fetch is a promise that a   *)
(* timer of 800 ms resolves: the fetches settle in the order they started, *)
(* and the then / catch / finally callbacks of one fetch run together.     *)
(***************************************************************************)

MaxFetches == 3

Ids == {1, 2}

Grace == <<"G", "r", "a", "c", "e">>

MutRenderLoadingAsIdle(userQuery) ==
  CASE userQuery.tag \in {"NotAsked", "Loading"} -> [out |-> "Idle", log |-> <<"NotAsked">>]
    [] userQuery.tag = "Done" /\ userQuery.value.tag = "Ok" ->
         [out |-> "Name: " \o Join(userQuery.value.value.name, ""), log |-> <<"Done", "Ok">>]
    [] userQuery.tag = "Done" /\ userQuery.value.tag = "Error" ->
         [out |-> ToStr(userQuery.value.error), log |-> <<"Done", "Error">>]

\* render(userQuery): the text, and the handlers that ran.
render(userQuery) ==
  CASE userQuery.tag = "NotAsked" -> [out |-> "Idle", log |-> <<"NotAsked">>]
    [] userQuery.tag = "Loading" -> [out |-> "Loading...", log |-> <<"Loading">>]
    [] userQuery.tag = "Done" /\ userQuery.value.tag = "Ok" ->
         [out |-> "Name: " \o Join(userQuery.value.value.name, ""), log |-> <<"Done", "Ok">>]
    [] userQuery.tag = "Done" /\ userQuery.value.tag = "Error" ->
         [out |-> ToStr(userQuery.value.error), log |-> <<"Done", "Error">>]

\* The JSX UserCard returns: the same two matches as render.
UserCardView(state) == render(state).out

\* The JSX UserCardLegacy returns (its ellipsis is written as three dots).
UserCardLegacyView(data, error, isLoading) ==
  IF isLoading THEN "Loading..."
  ELSE IF error # JsUndefined THEN ToStr(error)
  ELSE IF data = JsUndefined THEN "Idle"
  ELSE Join(data.name, "")

\* fetchUser(id) resolves with { id, name: 'Grace' }
fetchUser(id) == User(id, Grace)

ReactInit ==
  /\ vCalled = FALSE
  /\ vIn = NotAsked
  /\ vOut = ""
  /\ vLog = <<>>
  /\ kMounted = FALSE
  /\ kId = 1
  /\ kEffectDue = FALSE
  /\ kState = NotAsked
  /\ kShown = NotAsked
  /\ kOut = ""
  /\ lMounted = FALSE
  /\ lId = 1
  /\ lEffectDue = FALSE
  /\ lData = JsUndefined
  /\ lError = JsUndefined
  /\ lIsLoading = FALSE
  /\ lPending = <<>>
  /\ lStarted = 0
  /\ lOut = ""

renderVars == <<vCalled, vIn, vOut, vLog>>

cardVars == <<kMounted, kId, kEffectDue, kState, kShown, kOut>>

legacyVars == <<lMounted, lId, lEffectDue, lData, lError, lIsLoading, lPending, lStarted, lOut>>

\* render(userQuery) is called.
CallRender ==
  \E userQuery \in AsyncValues :
    /\ vCalled' = TRUE
    /\ vIn' = userQuery
    /\ vOut' = render(userQuery).out
    /\ vLog' = render(userQuery).log
    /\ UNCHANGED <<cardVars, legacyVars>>
    /\ UNCHANGED <<mvars, ovars, rvars, avars, hvars, gvars, evars>>

\* <UserCard id={id} /> is rendered for the first time: useState(NotAsked).
UserCardMount ==
  /\ ~kMounted
  /\ \E id \in Ids :
      /\ kMounted' = TRUE
      /\ kId' = id
      /\ kState' = NotAsked
      /\ kShown' = NotAsked
      /\ kOut' = UserCardView(NotAsked)
      /\ kEffectDue' = TRUE
      /\ UNCHANGED <<renderVars, legacyVars>>
      /\ UNCHANGED <<mvars, ovars, rvars, avars, hvars, gvars, evars>>

\* The parent renders UserCard with another id: [id] changed, the effect is due.
UserCardChangeId ==
  /\ kMounted /\ ~kEffectDue
  /\ \E id \in Ids \ {kId} :
      /\ kId' = id
      /\ kShown' = kState
      /\ kOut' = UserCardView(kState)
      /\ kEffectDue' = TRUE
      /\ UNCHANGED <<kMounted, kState>>
      /\ UNCHANGED <<renderVars, legacyVars>>
      /\ UNCHANGED <<mvars, ovars, rvars, avars, hvars, gvars, evars>>

\* useEffect(() => { setState(fetchUserAsyncData()) }, [id])
UserCardEffect ==
  /\ kMounted /\ kEffectDue
  /\ kState' = fetchUserAsyncData
  /\ kEffectDue' = FALSE
  /\ UNCHANGED <<kMounted, kId, kShown, kOut>>
  /\ UNCHANGED <<renderVars, legacyVars>>
  /\ UNCHANGED <<mvars, ovars, rvars, avars, hvars, gvars, evars>>

\* The state changed: UserCard renders again.
UserCardRender ==
  /\ kMounted /\ kShown # kState
  /\ kShown' = kState
  /\ kOut' = UserCardView(kState)
  /\ UNCHANGED <<kMounted, kId, kEffectDue, kState>>
  /\ UNCHANGED <<renderVars, legacyVars>>
  /\ UNCHANGED <<mvars, ovars, rvars, avars, hvars, gvars, evars>>

\* <UserCardLegacy id={id} /> is rendered for the first time.
UserCardLegacyMount ==
  /\ ~lMounted
  /\ \E id \in Ids :
      /\ lMounted' = TRUE
      /\ lId' = id
      /\ lData' = JsUndefined
      /\ lError' = JsUndefined
      /\ lIsLoading' = FALSE
      /\ lOut' = UserCardLegacyView(JsUndefined, JsUndefined, FALSE)
      /\ lEffectDue' = TRUE
      /\ UNCHANGED <<lPending, lStarted>>
      /\ UNCHANGED <<renderVars, cardVars>>
      /\ UNCHANGED <<mvars, ovars, rvars, avars, hvars, gvars, evars>>

\* The parent renders UserCardLegacy with another id: [id] changed, the
\* effect is due.
UserCardLegacyChangeId ==
  /\ lMounted /\ ~lEffectDue /\ lStarted < MaxFetches
  /\ \E id \in Ids \ {lId} :
      /\ lId' = id
      /\ lOut' = UserCardLegacyView(lData, lError, lIsLoading)
      /\ lEffectDue' = TRUE
      /\ UNCHANGED <<lMounted, lData, lError, lIsLoading, lPending, lStarted>>
      /\ UNCHANGED <<renderVars, cardVars>>
      /\ UNCHANGED <<mvars, ovars, rvars, avars, hvars, gvars, evars>>

\* useEffect(() => { setLoad(true); fetchUser(id)... }, [id]): the fetch starts.
UserCardLegacyEffect ==
  /\ lMounted /\ lEffectDue
  /\ lIsLoading' = TRUE
  /\ lPending' = Append(lPending, lId)
  /\ lStarted' = lStarted + 1
  /\ lEffectDue' = FALSE
  /\ UNCHANGED <<lMounted, lId, lData, lError, lOut>>
  /\ UNCHANGED <<renderVars, cardVars>>
  /\ UNCHANGED <<mvars, ovars, rvars, avars, hvars, gvars, evars>>

\* The oldest fetch resolves: .then((u) => setData(u)), .catch is passed
\* over, .finally(() => setLoad(false)).
UserCardLegacySettle ==
  /\ lMounted /\ lPending # <<>>
  /\ lData' = fetchUser(Head(lPending))
  /\ lIsLoading' = FALSE
  /\ lPending' = Tail(lPending)
  /\ UNCHANGED <<lMounted, lId, lEffectDue, lError, lStarted, lOut>>
  /\ UNCHANGED <<renderVars, cardVars>>
  /\ UNCHANGED <<mvars, ovars, rvars, avars, hvars, gvars, evars>>

\* The state changed: UserCardLegacy renders again.
UserCardLegacyRender ==
  /\ lMounted /\ lOut # UserCardLegacyView(lData, lError, lIsLoading)
  /\ lOut' = UserCardLegacyView(lData, lError, lIsLoading)
  /\ UNCHANGED <<lMounted, lId, lEffectDue, lData, lError, lIsLoading, lPending, lStarted>>
  /\ UNCHANGED <<renderVars, cardVars>>
  /\ UNCHANGED <<mvars, ovars, rvars, avars, hvars, gvars, evars>>

ReactNext ==
  \/ CallRender
  \/ UserCardMount
  \/ UserCardChangeId
  \/ UserCardEffect
  \/ UserCardRender
  \/ UserCardLegacyMount
  \/ UserCardLegacyChangeId
  \/ UserCardLegacyEffect
  \/ UserCardLegacySettle
  \/ UserCardLegacyRender

(***************************************************************************)
(* Specifications                                                          *)
(***************************************************************************)

Init == MatchInit /\ OptInit /\ ResInit /\ AsyncInit /\ HeapInit /\ MessageInit /\ ExceptionInit /\ ReactInit

MatchNext == CallMatchTagged \/ CallHandleError

SpecMatch == Init /\ [][MatchNext]_vars

SpecOption == Init /\ [][OptionNext]_vars

SpecResult == Init /\ [][ResultNext]_vars

SpecAsync == Init /\ [][AsyncNext]_vars

SpecHeap == Init /\ [][HeapNext]_vars

SpecMessage == Init /\ [][MessageNext]_vars

SpecException == Init /\ [][ExceptionNext]_vars

SpecReact == Init /\ [][ReactNext]_vars

(***************************************************************************)
(* Properties of matchTagged                                               *)
(***************************************************************************)

MatchCalled == mOp \in {"matchTagged", "handleError"}

\* C1: when the mapping has an entry for the value's tag, the call returns
\* the result of that entry's handler applied to the value, and the call log
\* holds that one invocation and nothing else.
C1_MatchDispatch ==
  (MatchCalled /\ mValue._tag \in DOMAIN mHandlers) =>
    /\ mOut.kind = "return"
    /\ mOut.payload = ApplyHandler(mHandlers[mValue._tag], mValue)
    /\ mOut.calls = <<[fn |-> mHandlers[mValue._tag], arg |-> mValue]>>

C1_Witness ==
  /\ mOp = "handleError"
  /\ mValue = ValidationError("email", "empty")
  /\ mOut.kind = "return"
  /\ mOut.payload = "Field email is invalid: empty"
  /\ Len(mOut.calls) = 1

\* C2 (as claimed): a value whose tag has no entry in the mapping makes the
\* call fail with a NonExhaustiveMatch error naming the tag; it neither
\* returns nor fails with another error.
C2_NonExhaustiveMatch ==
  (MatchCalled /\ mValue._tag \notin DOMAIN mHandlers) =>
    /\ mOut.kind = "throw"
    /\ mOut.payload.name = "NonExhaustiveMatch"
    /\ mOut.payload.message = mValue._tag

\* C3 (as claimed): a mapping whose keys are not exactly the family's tags
\* makes the call fail, whatever the tag of the value.
C3_RejectedAtConstruction ==
  (mOp = "matchTagged" /\ DOMAIN mHandlers # AppErrorTags) => mOut.kind = "throw"

\* C3 (amended): matchTagged does not inspect the mapping: with a mapping
\* that lacks a tag of the family or has an extra key, a value whose tag the
\* mapping handles is dispatched to that handler and the call returns.
C3_NoRuntimeRejection ==
  (mOp = "matchTagged" /\ DOMAIN mHandlers # AppErrorTags
     /\ mValue._tag \in DOMAIN mHandlers) =>
    /\ mOut.kind = "return"
    /\ mOut.payload = ApplyHandler(mHandlers[mValue._tag], mValue)

C3_Witness ==
  /\ mOp = "matchTagged"
  /\ DOMAIN mHandlers = {"NetworkError"}
  /\ mValue = NetworkError("down")
  /\ mOut.kind = "return"
  /\ mOut.payload = "Could not reach server: down"

(***************************************************************************)
(* Properties of Option                                                    *)
(***************************************************************************)

\* C4: Option.fromNullable(x) is None exactly for null and undefined and
\* Some(x) for every other x, falsy ones included; priceTag(raw) is "N/A"
\* exactly for null and undefined and "$" followed by the number with two
\* decimals otherwise (priceTag(0) is "$0.00"); consumeOption starts from the
\* same conversion, so a raw 0 reaches its first callback.
C4_FromNullable ==
  /\ oOp = "fromNullable" =>
       /\ (oVal = None) <=> (oIn \in {JsNull, JsUndefined})
       /\ (oIn \notin {JsNull, JsUndefined}) => (oVal = Some(oIn))
  /\ oOp = "priceTag" =>
       /\ oOut.kind = "return"
       /\ (oOut.payload = "N/A") <=> (oIn \in {JsNull, JsUndefined})
       /\ (oIn = Num(0)) => (oOut.payload = "$0.00")
       /\ (oIn = Num(5)) => (oOut.payload = "$5.00")
       /\ (oIn = Num(-1)) => (oOut.payload = "$-1.00")
       /\ (oIn = Num(1001)) => (oOut.payload = "$1001.00")
  /\ oOp = "consumeOption" =>
       /\ (oOrigin = None) <=> (oIn \in {JsNull, JsUndefined})
       /\ (oIn = Num(0)) => (oLog # <<>> /\ oLog[1] = Call("wipeStep", Num(0)))

C4_Witness ==
  /\ oOp = "priceTag"
  /\ oIn = Num(0)
  /\ oOut.payload = "$0.00"

\* What the pipeline holds after value.map(f) / value.flatMap(f) on Some(x).
C5_AfterSome ==
  LET r == ApplyOptFn(oFn.name, oPrev.value, oFn.env)
  IN  /\ oOp = "map" => oVal = Some(r.v)
      /\ oOp = "flatMap" => oVal = r.v
      /\ Call(oFn.name, oPrev.value) \in {oLog[i] : i \in 1..Len(oLog)}

\* C5: None.map(f) and None.flatMap(f) are None and f is not invoked; a
\* pipeline that started from None, consumeOption's included, is still None
\* after any number of map/flatMap calls and has invoked no callback;
\* Some(x).map(f) is Some(f(x)), and fromNullable(5).map(n => n * 2) is
\* Some(10).
C5_OptionShortCircuit ==
  /\ [](/\ (oOp \in {"map", "flatMap", "consumeOption"} /\ oOrigin = None) =>
             (oVal = None /\ oLog = <<>>)
        /\ (oOp \in {"map", "flatMap"} /\ oPrev = None) => (oVal = None)
        /\ (oOp \in {"map", "flatMap"} /\ oPrev # None) => C5_AfterSome
        /\ (oOp = "map" /\ oSteps = 1 /\ oFn.name = "double" /\ oIn = Num(5)) =>
             (oVal = Some(Num(10)))
        /\ (oOp = "map" /\ oSteps = 1 /\ oFn.name = "double" /\ oIn = JsNull) =>
             (oVal = None))
  /\ [][(oVal = None /\ oOp' \in {"map", "flatMap"}) =>
          (oVal' = None /\ oLog' = oLog)]_vars

C5_Witness ==
  /\ oOp = "flatMap"
  /\ oOrigin = None
  /\ oSteps = 2
  /\ oVal = None
  /\ oLog = <<>>

(***************************************************************************)
(* Properties of Result                                                    *)
(***************************************************************************)

ChainOps == {rChain[i] : i \in 1..Len(rChain)}

\* C6: a pipeline that started from Error(e) and made only map and flatMap
\* calls, Error(e).flatMap(f).map(g) among them, still holds Error(e) with
\* the same e (the same object, not a look-alike) and has invoked no
\* callback; map and flatMap on an Error reached mid-chain change nothing; in
\* halfIfEven and halfIfEven_flat a parse error comes out as it was, with no
\* callback invoked, and after 'not even' the division is not invoked.
C6_ErrorPropagation ==
  /\ (InResPipeline /\ rOrigin.tag = "Error" /\ "mapError" \notin ChainOps) =>
       (rVal = rOrigin /\ rLog = <<>>)
  /\ (rOp \in {"map", "flatMap"} /\ rPrev.v.tag = "Error") =>
       (rVal = rPrev.v /\ rLog = rPrev.log)
  /\ (rOp \in {"halfIfEven", "halfIfEven_flat"} /\ rOrigin.tag = "Error") =>
       (rVal = rOrigin /\ rLog = <<>>)
  /\ (rOp = "halfIfEven" /\ rOrigin.tag = "Ok" /\ rVal.tag = "Error") =>
       (rVal = Error(Str("not even")) /\ rLog = <<Call("ensureEven", rOrigin.value)>>)

C6_Witness ==
  /\ rOp = "map"
  /\ rChain = <<"flatMap", "map">>
  /\ rOrigin = Error(ErrorObject("NetworkError", 2))
  /\ rVal = Error(ErrorObject("NetworkError", 2))
  /\ rLog = <<>>

\* A Result whose payload is not itself a Result.
NotNested(r) == r.tag = "Ok" => "tag" \notin DOMAIN r.value

\* C7: Ok(x).flatMap(f) is f(x), not wrapped again, and f is invoked exactly
\* once, with x; halfIfEven_flat(raw) is half(n) whenever raw parses to n.
C7_Flattening ==
  /\ (rOp = "flatMap" /\ rPrev.v.tag = "Ok") =>
       /\ rVal = ApplyResFn(rFn, rPrev.v.value)
       /\ NotNested(rVal)
       /\ rLog = Append(rPrev.log, Call(rFn, rPrev.v.value))
  /\ (rOp = "halfIfEven_flat" /\ rOrigin.tag = "Ok") =>
       /\ rVal = half(rOrigin.value)
       /\ NotNested(rVal)
       /\ rLog = <<Call("half", rOrigin.value)>>

C7_Witness ==
  /\ rOp = "halfIfEven_flat"
  /\ rIn = <<"8">>
  /\ rVal = Ok(Num(4))
  /\ rLog = <<Call("half", Num(8))>>

\* C8: map leaves an Error as it is and does not invoke its function,
\* mapError leaves an Ok as it is and does not invoke its function;
\* Ok(x).map(f) is Ok(f(x)) and Error(e).mapError(f) is Error(f(e));
\* parseAndDouble, squareIfNumber and positiveSquare pass a parse error
\* through and transform a parsed number.
C8_OneSideOnly ==
  /\ (rOp = "map" /\ rPrev.v.tag = "Error") => (rVal = rPrev.v /\ rLog = rPrev.log)
  /\ (rOp = "mapError" /\ rPrev.v.tag = "Ok") => (rVal = rPrev.v /\ rLog = rPrev.log)
  /\ (rOp = "map" /\ rPrev.v.tag = "Ok") =>
       /\ rVal = Ok(ApplyResFn(rFn, rPrev.v.value))
       /\ rLog = Append(rPrev.log, Call(rFn, rPrev.v.value))
  /\ (rOp = "mapError" /\ rPrev.v.tag = "Error") =>
       /\ rVal = Error(ApplyResFn(rFn, rPrev.v.error))
       /\ rLog = Append(rPrev.log, Call(rFn, rPrev.v.error))
  /\ (rOp \in {"parseAndDouble", "squareIfNumber", "positiveSquare"}
        /\ rOrigin.tag = "Error") =>
       (rVal = rOrigin /\ rLog = <<>>)
  /\ (rOp = "parseAndDouble" /\ rOrigin.tag = "Ok") =>
       /\ rVal = Ok(Num(rOrigin.value.n + rOrigin.value.n))
       /\ rLog = <<Call("double", rOrigin.value)>>
  /\ (rOp = "squareIfNumber" /\ rOrigin.tag = "Ok") =>
       /\ rVal = Ok(Num(rOrigin.value.n * rOrigin.value.n))
       /\ rLog = <<Call("square", rOrigin.value)>>
  /\ (rOp = "positiveSquare" /\ rOrigin.tag = "Ok" /\ rOrigin.value.n <= 0) =>
       /\ rVal = Error(Str("negative"))
       /\ rLog = <<Call("positive", rOrigin.value)>>

C8_Witness ==
  /\ rOp = "mapError"
  /\ rChain = <<"map", "mapError">>
  /\ rPrev.v = Ok(Num(49))
  /\ rVal = Ok(Num(49))
  /\ Len(rLog) = 1

(***************************************************************************)
(* Properties of AsyncData                                                 *)
(***************************************************************************)

\* C9: map and flatMap return NotAsked and Loading as they are and do not
\* invoke their function; Done(v).map(f) is Done(f(v)) and Done(v).flatMap(f)
\* is f(v); uppercaseName upper-cases the name in Done(Ok(user)), keeping the
\* id, and returns NotAsked, Loading and Done(Error(e)) as they were, without
\* invoking the function that builds the new user; initials is Done(Ok("Ad")).
C9_AsyncMapOnlyDone ==
  /\ (aOp \in {"map", "flatMap"} /\ aPrev.v.tag \in {"NotAsked", "Loading"}) =>
       (aVal = aPrev.v /\ aLog = aPrev.log)
  /\ (aOp = "map" /\ aPrev.v.tag = "Done") =>
       /\ aVal = Done(ApplyAsyncFn(aFn, aPrev.v.value).v)
       /\ aLog = aPrev.log \o <<Call(aFn, aPrev.v.value)>>
                   \o ApplyAsyncFn(aFn, aPrev.v.value).log
  /\ (aOp = "flatMap" /\ aPrev.v.tag = "Done") =>
       /\ aVal = ApplyAsyncFn(aFn, aPrev.v.value).v
       /\ aLog = aPrev.log \o <<Call(aFn, aPrev.v.value)>>
  /\ (aOp = "uppercaseName" /\ aIn.tag \in {"NotAsked", "Loading"}) =>
       (aVal = aIn /\ aLog = <<>>)
  /\ (aOp = "uppercaseName" /\ aIn.tag = "Done" /\ aIn.value.tag = "Error") =>
       (aVal = aIn /\ aLog = <<Call("uppercaseInner", aIn.value)>>)
  /\ (aOp = "uppercaseName" /\ aIn.tag = "Done" /\ aIn.value.tag = "Ok") =>
       /\ aVal.tag = "Done" /\ aVal.value.tag = "Ok"
       /\ aVal.value.value.id = aIn.value.value.id
       /\ aVal.value.value.name = toUpperCase(aIn.value.value.name)
       /\ (aIn = okUser) => (aVal.value.value.name = <<"A", "D", "A">>)
  /\ (aOp = "initials") => (aVal = Done(Ok(Str("Ad"))))

C9_Witness ==
  /\ aOp = "uppercaseName"
  /\ aIn = Done(Ok(User(1, John)))
  /\ aVal = Done(Ok(User(1, <<"J", "O", "H", "N">>)))

\* One of the four shapes of an AsyncData<Result<T, E>>.
IsFourShape(ad) ==
  \/ ad = NotAsked
  \/ ad = Loading
  \/ /\ DOMAIN ad = {"tag", "value"}
     /\ ad.tag = "Done"
     /\ \/ DOMAIN ad.value = {"tag", "value"} /\ ad.value.tag = "Ok"
        \/ DOMAIN ad.value = {"tag", "error"} /\ ad.value.tag = "Error"

\* C10: every AsyncData<Result> the constructors, fromTanstackQuery, the
\* exported pipelines and any chain of map, flatMap, mapOk and mapOkToResult
\* calls produce is NotAsked, Loading, Done(Ok(_)) or Done(Error(_)).
C10_FourShapes == IsThrow(aVal) \/ IsFourShape(aVal)

C10_Witness ==
  /\ aOp = "mapOkToResult"
  /\ aIn = [data |-> User(1, Ada), error |-> Str("404"), isLoading |-> TRUE]
  /\ aOrigin = Done(Ok(User(1, Ada)))
  /\ aChain = <<"mapOk", "mapOkToResult">>
  /\ aVal = Done(Ok(Str("AD")))

\* x !== undefined
Present(x) == x.t # "undefined"

\* The outcome the resolution order data > error > isLoading > none gives
\* when "present" means "not undefined".
ByPresence(q) ==
  IF Present(q.data) THEN Done(Ok(q.data))
  ELSE IF Present(q.error) THEN Done(Error(q.error))
  ELSE IF q.isLoading THEN Loading
  ELSE NotAsked

\* C11: fromTanstackQuery resolves in the order data > error > isLoading >
\* none, where present means not undefined: every data other than undefined,
\* falsy payloads such as 0, '' and false included, gives Done(Ok(data)),
\* otherwise every error other than undefined gives Done(Error(error)),
\* otherwise Loading if isLoading, otherwise NotAsked.
C11_PresenceOrder ==
  aOp = "fromTanstackQuery" => aVal = ByPresence(aIn)

\* C12: fromTanstackQuery, in the lesson file and in the exercise file, never
\* throws, returns one of the four AsyncData<Result> states for each of the
\* 8 flag combinations, and returns Done(Ok(D)) for data D, error E and
\* isLoading true all present.
C12_TotalAdapter ==
  aOp \in {"fromTanstackQuery", "fromTanstackQueryStub"} =>
    /\ ~IsThrow(aVal)
    /\ IsFourShape(aVal)
    /\ (Present(aIn.data) /\ Present(aIn.error) /\ aIn.isLoading
          => aVal = Done(Ok(aIn.data)))

\* C13: halfIfEven(raw) is Error('not a number') when raw does not parse to a
\* number, Error('not even') when it parses to an odd number and Ok(n / 2)
\* when it parses to an even number n; '8' gives Ok(4), '7' gives
\* Error('not even') and 'x' gives Error('not a number').
C13_HalfIfEven ==
  rOp = "halfIfEven" =>
    /\ LET n == Number(rIn)
       IN  rVal = IF NumberIsNaN(n) THEN Error(Str("not a number"))
                  ELSE IF n.n % 2 # 0 THEN Error(Str("not even"))
                  ELSE Ok(Num(n.n \div 2))
    /\ rIn = <<"8">> => rVal = Ok(Num(4))
    /\ rIn = <<"7">> => rVal = Error(Str("not even"))
    /\ rIn = <<"x">> => rVal = Error(Str("not a number"))

C13_Witness ==
  /\ rOp = "halfIfEven"
  /\ rIn = <<"-", "1", "8">>
  /\ rVal = Ok(Num(-9))
  /\ rLog = <<Call("ensureEven", Num(-18)), Call("halve", Num(-18))>>

\* C14: in parseIntResult(raw).flatMap(ensurePositive).flatMap(under100) the
\* first failing step decides the outcome and no later validator is invoked:
\* the result is Ok(n) exactly when raw parses to an integer n with
\* 0 < n < 100, otherwise the error of the first step that failed.
C14_FirstErrorWins ==
  rOp = "under100Chain" =>
    LET n == parseInt(rIn)
    IN  /\ rVal.tag = "Ok" <=> (~NumberIsNaN(n) /\ 0 < n.n /\ n.n < 100)
        /\ rVal.tag = "Ok" => rVal = Ok(n)
        /\ NumberIsNaN(n) => (rVal = Error(Str("NaN")) /\ rLog = <<>>)
        /\ (~NumberIsNaN(n) /\ n.n <= 0) =>
             /\ rVal = Error(Str("negative number.."))
             /\ rLog = <<Call("ensurePositive", n)>>
        /\ (~NumberIsNaN(n) /\ n.n >= 100) =>
             /\ rVal.tag = "Error"
             /\ rVal.error \notin {Str("NaN"), Str("negative number..")}
             /\ rLog = <<Call("ensurePositive", n), Call("under100", n)>>

C14_Witness ==
  /\ rOp = "under100Chain"
  /\ rIn = <<"1", "0", "0">>
  /\ rVal = Error(Str("Number is greater than 100. Number: 100."))
  /\ rLog = <<Call("ensurePositive", Num(100)), Call("under100", Num(100))>>

\* The solution functions that return a Result.
SolutionFunctions ==
  {"halfIfEven", "halfIfEvenMatch", "formatPositiveCurrency",
   "formatPositiveCurrencyMatch", "nestedMatchesImproved", "safeDivide"}

\* C15: halfIfEven and formatPositiveCurrency of both solution files,
\* nestedMatchesImproved and safeDivide return a Result for every input and
\* do not throw; a network failure is Error(NetworkError) and a negative
\* number is Error(InvalidNumber(n)).
C15_ErrorsAreValues ==
  rOp \in SolutionFunctions =>
    /\ ~IsThrow(rVal)
    /\ rVal.tag \in {"Ok", "Error"}
    /\ rOp \in {"formatPositiveCurrency", "formatPositiveCurrencyMatch"} =>
         /\ rIn.flag =>
              (rVal.tag = "Error" /\ rVal.error._tag = "NetworkError")
         /\ (~rIn.flag /\ rIn.high) =>
              /\ rVal.tag = "Error"
              /\ rVal.error._tag = "InvalidNumber"
              /\ rVal.error.number = -5
         /\ (~rIn.flag /\ ~rIn.high) => rVal.tag = "Ok"

C15_Witness ==
  /\ rOp = "formatPositiveCurrency"
  /\ rIn = [flag |-> TRUE, high |-> TRUE]
  /\ rVal = Error(NewNetworkError)
  /\ rLog = <<>>

\* C16: a transformation does not write into what it is given: after
\* uppercaseName(ad), mapOkToResult(validateNameLength) or
\* mapOk(upperCaseName) the receiver and every object that existed before
\* the call, the User inside Done(Ok(user)) included, are what they were, and
\* the User uppercaseName returns is a new object.
C16_NoMutation ==
  hOp \in {"uppercaseName", "mapOkToResult", "mapOk"} =>
    /\ \A r \in Refs : hBefore[r] # Free => hHeap[r] = hBefore[r]
    /\ HoldsUserRef(hRecv) => hHeap[hRecv.value.value.ref].kind = "user"
    /\ (hOp = "uppercaseName" /\ HoldsUserRef(hRecv)) =>
         /\ hOut.value.value.ref # hRecv.value.value.ref
         /\ hBefore[hOut.value.value.ref] = Free
         /\ hHeap[hOut.value.value.ref] =
              UserObject(hHeap[hRecv.value.value.ref].id,
                         toUpperCase(hHeap[hRecv.value.value.ref].name))

C16_Witness ==
  /\ hOp = "uppercaseName"
  /\ hRecv = Done(Ok(Ref(1)))
  /\ hHeap[1] = UserObject(1, Ada)
  /\ hOut = Done(Ok(Ref(2)))
  /\ hHeap[2] = UserObject(1, <<"A", "D", "A">>)

\* C17: nestedMatchesImproved returns for every string what the lesson's
\* nestedMatches returns: the same tag and the same payload, the error
\* message included.
C17_SameAsNestedMatches ==
  rOp = "nestedMatchesImproved" => rVal = nestedMatches(rIn).v

\* C18: safeDivide(a, b) is Error('NaN') when a does not parse, and then b is
\* not parsed; else Error('NaN') when b does not parse; else
\* Error('Number cannot be 0.') when b parses to 0; else Ok(a / b).  It never
\* divides by zero and never returns Ok for an operand that does not parse.
C18_SafeDivide ==
  rOp = "safeDivide" =>
    LET a == parseInt(rIn.a)
        b == parseInt(rIn.b)
    IN  /\ NumberIsNaN(a) =>
             (rVal = Error(Str("NaN")) /\ rLog = <<Call("parseIntResult", rIn.a)>>)
        /\ (~NumberIsNaN(a) /\ NumberIsNaN(b)) => rVal = Error(Str("NaN"))
        /\ (~NumberIsNaN(a) /\ ~NumberIsNaN(b) /\ b.n = 0) =>
             rVal = Error(Str("Number cannot be 0."))
        /\ (~NumberIsNaN(a) /\ ~NumberIsNaN(b) /\ b.n # 0) =>
             /\ rVal.tag = "Ok"
             /\ IF "den" \in DOMAIN rVal.value
                THEN rVal.value.num * b.n = a.n * rVal.value.den
                ELSE rVal.value.n * b.n = a.n
        /\ \A i \in 1..Len(rLog) :
             rLog[i].fn = "divide" => rLog[i].arg[2].n # 0
        /\ rVal.tag = "Ok" => (~NumberIsNaN(a) /\ ~NumberIsNaN(b))

C18_Witness ==
  /\ rOp = "safeDivide"
  /\ rIn = [a |-> <<"1", "0">>, b |-> <<"-", "8">>]
  /\ rVal = Ok([t |-> "number", num |-> -5, den |-> 4])

\* The days that are None or have prototypesGenerated 0, by position.
EmptyDays(week) == {i \in 1..Len(week) : IsEmptyDay(week[i])}

FirstEmptyDay(week) == CHOOSE i \in EmptyDays(week) : \A j \in EmptyDays(week) : i <= j

\* C19: the ts-pattern getMessage returns a string for every list of days,
\* never undefined: the Welcome message when no day is None or has 0
\* prototypes, otherwise the "didn't log in" message when the first such day
\* is None and the "didn't generate any prototypes" message when it is Some.
C19_PatternMessage ==
  gOp = "getMessagePattern" =>
    /\ gOut # JsUndefined
    /\ gOut.t = "string"
    /\ EmptyDays(gWeek) = {} => gOut = Welcome
    /\ (EmptyDays(gWeek) # {} /\ gWeek[FirstEmptyDay(gWeek)] = None) =>
         gOut = Str("Seems like you didn't log in yesterday!")
    /\ (EmptyDays(gWeek) # {} /\ gWeek[FirstEmptyDay(gWeek)] # None) =>
         gOut = Str("I see you didn't generate any prototypes yesterday!")

\* C20: the Option-based getMessage returns the Welcome message exactly when
\* no day is None or has prototypesGenerated 0, "Seems like you didn't log
\* in last week!" exactly when the first such day is None, and "I see you
\* didn't generate any prototypes last week!" exactly when the first such
\* day is Some with 0 prototypes.
C20_OptionMessage ==
  gOp = "getMessage" =>
    /\ gOut = Welcome <=> EmptyDays(gWeek) = {}
    /\ gOut = Str("Seems like you didn't log in last week!") <=>
         (EmptyDays(gWeek) # {} /\ gWeek[FirstEmptyDay(gWeek)] = None)
    /\ gOut = Str("I see you didn't generate any prototypes last week!") <=>
         (EmptyDays(gWeek) # {} /\ gWeek[FirstEmptyDay(gWeek)] = Some(Usage(0)))

C20_Witness ==
  /\ gOp = "getMessage"
  /\ gWeek = <<Some(Usage(3)), None, Some(Usage(0))>>
  /\ gOut = Str("Seems like you didn't log in last week!")

\* C21: formatPositiveCurrency(flag), in both solution files, returns
\* Error(NetworkError) when the network failed, Error(InvalidNumber(n)) when
\* the fetched n is negative, and otherwise Ok of n as a dollar sign
\* followed by the number with two decimals ('$42.00').
C21_FormatPositiveCurrency ==
  rOp \in {"formatPositiveCurrency", "formatPositiveCurrencyMatch"} =>
    /\ rIn.flag => rVal = Error(NewNetworkError)
    /\ (~rIn.flag /\ rIn.high) => rVal = Error(NewInvalidNumber(Num(-5)))
    /\ (~rIn.flag /\ ~rIn.high) => rVal = Ok(Str("$42.00"))

\* The last call was mystery() and it has ended.
MysteryEnded ==
  /\ ePc = "idle"
  /\ Len(eTrace) > 0
  /\ eTrace[1] = "throw"
  /\ Len(eTrace) = 4

\* C22: in every run of mystery() the error is thrown, then the catch block
\* logs, then the finally block logs, then the function returns; the caller
\* receives 'finally return' and no exception.
C22_MysteryOrder ==
  /\ [](MysteryEnded =>
         /\ eTrace = <<"throw", "catch logs", "finally logs", "returns">>
         /\ eOut = Returned("finally return", <<>>)
         /\ Len(eConsole) >= 3
         /\ SubSeq(eConsole, Len(eConsole) - 2, Len(eConsole)) =
              <<"catch: something went wrong", "finally runs",
                "mystery() -> finally return">>)
  /\ [][(ePc = "mystery:try" => ePc' = "mystery:catch")
        /\ (ePc = "mystery:catch" => ePc' = "mystery:finally")
        /\ (ePc = "mystery:finally" => ePc' = "mystery:exit")
        /\ (ePc = "mystery:exit" =>
              (ePc' = "idle" /\ eOut' = Returned("finally return", <<>>)))]_evars

C22_Witness ==
  /\ MysteryEnded
  /\ eCalls = 2
  /\ eOut = Returned("finally return", <<>>)
  /\ eConsole = <<"Error: network down", "catch: something went wrong",
                  "finally runs", "mystery() -> finally return">>

\* C23: halfIfEvenPretty(raw), with halfIfEven imported from './08-results',
\* never throws; it is Error of the warning sign followed by e when
\* halfIfEven(raw) is Error(e), and the Ok of halfIfEven(raw) unchanged
\* otherwise.
C23_HalfIfEvenPretty ==
  rOp = "halfIfEvenPretty" =>
    /\ ~IsThrow(rVal)
    /\ LET h == halfIfEven(rIn).v
       IN  rVal = IF h.tag = "Error" THEN Error(Str("(!) " \o ToStr(h.error))) ELSE h

ExpectedText(ad) ==
  IF ad.tag = "NotAsked" THEN "Idle"
  ELSE IF ad.tag = "Loading" THEN "Loading..."
  ELSE IF ad.value.tag = "Ok" THEN "Name: " \o Join(ad.value.value.name, "")
  ELSE ad.value.error.s

LeafHandlers == {"NotAsked", "Loading", "Ok", "Error"}

\* C25: render is total over the four states: NotAsked gives 'Idle', Loading
\* gives 'Loading...', Done(Ok(user)) gives 'Name: ' and the name,
\* Done(Error(e)) gives e; each call runs exactly one leaf handler, and the
\* inner match on the Result runs only in the Done handler.  UserCard shows
\* its state the same way.
C25_RenderTotal ==
  /\ vCalled =>
       /\ vOut = ExpectedText(vIn)
       /\ Cardinality({i \in 1..Len(vLog) : vLog[i] \in LeafHandlers}) = 1
       /\ vLog[Len(vLog)] = (IF vIn.tag = "Done" THEN vIn.value.tag ELSE vIn.tag)
       /\ (\E i \in 1..Len(vLog) : vLog[i] \in {"Ok", "Error"})
            <=> (vIn.tag = "Done" /\ vLog[1] = "Done")
  /\ kMounted => kOut = ExpectedText(kShown)

C25_Witness ==
  /\ vCalled
  /\ vIn = Done(Error(Str("network")))
  /\ vOut = "network"
  /\ vLog = <<"Done", "Error">>
  /\ kMounted
  /\ kShown = Done(Ok(User(234, John)))
  /\ kOut = "Name: John"

\* C27: in UserCardLegacy isLoading is true whenever a fetch the effect
\* started has not yet settled, in every interleaving, a second fetch
\* started by a change of id before the first one settled included.
C27_LoadingWhilePending == lPending # <<>> => lIsLoading

\* The helpers a consumeOption call invoked.
HelpersCalled == {oLog[i].fn : i \in 1..Len(oLog)}

\* C26: consumeOption(raw) returns 'No data' exactly when raw is null or
\* undefined, or maybeWipe returns null, or the surviving value is above
\* 1000 and fetchFallback returns undefined; otherwise it returns the
\* surviving number as '$n.nn'.  maybeWipe and fetchFallback are not invoked
\* for a null or undefined raw, fetchFallback is invoked only for a value
\* above 1000, and a raw 0 is not treated as absent.
C26_ConsumeOption ==
  oOp = "consumeOption" =>
    LET env == oFn.env
        noData == \/ IsNullish(oIn)
                  \/ ~env.keep
                  \/ (oIn.n > 1000 /\ ~env.coin)
        surviving == IF oIn.n > 1000 THEN env.amount ELSE oIn.n
    IN  /\ IsNullish(oIn) => HelpersCalled \cap {"maybeWipe", "fetchFallback"} = {}
        /\ "fetchFallback" \in HelpersCalled => (~IsNullish(oIn) /\ oIn.n > 1000)
        /\ IF oOut.kind # "return" THEN FALSE
           ELSE IF noData THEN oOut.payload = "No data"
           ELSE oOut.payload = "$" \o toFixed(surviving, 2)

====
